---- MODULE Spec2Model ----
(***************************************************************************)
(* Model of the matrix65 serial monitor session (mlund/matrix65).          *)
(*                                                                         *)
(* The program side is src/src/lib/serial.rs (read_memory, flush_monitor,  *)
(* write_memory, stop_cpu, start_cpu) and the older src/src/serial.rs      *)
(* (load_memory).  Every port.write_all / port.read_exact of the source is *)
(* one step; `wire` records the byte strings written, `rx` is the serial   *)
(* input buffer.  The device side is a loopback MEGA65 monitor: it parses  *)
(* the bytes written, keeps a memory and answers dumps from it.            *)
(*                                                                         *)
(* All wire data are sequences of byte values (ASCII codes).               *)
(***************************************************************************)
EXTENDS Integers, Sequences, FiniteSets, TLC

VARIABLES
    pc,         \* position inside the running call, "idle" before the first
    op,         \* the running call: [name, address, length, payload]
    wire,       \* byte strings written to the port by the running call
    rx,         \* bytes waiting in the serial input buffer
    bytes,      \* read_memory / load_memory: the accumulator `bytes`
    result,     \* [state |-> "none" | "ok" | "err", bytes |-> returned block]
    chunkReads, \* number of read_exact calls for a 32 character chunk
    chunks,     \* the chunk characters read by the running call, concatenated
    short,      \* a frame read of the running call found too few bytes
    badHex,     \* a chunk of the running call was not valid hexadecimal
    last,       \* the previous call: [name, state]
    calls,      \* number of calls started
    overflowChecks, \* build profile: "panic" or "wrap" on integer overflow,
                \* "unset" until the first overflow shows which
    mem,        \* device: cells written so far (address -> byte)
    halted,     \* device: CPU halted by t1 and not yet resumed by t0
    dumpPtr,    \* device: address of the next dump line
    devLoad,    \* device: pending load range <<start, end>>, or <<>>
    mode,       \* device: "native" (C65) or "compat" (C64) mode
    outer,      \* the running command (poke, go64, go65, handle_prg_from_bytes)
                \* that makes the calls, NoOuter when a call runs on its own
    keyIdx,     \* type_text: number of characters handled so far
    keyFaults,  \* number of keystroke writes that have failed
    lasm,       \* LoadAddress: the value, its LoadAddress and its value()
    loader,     \* load_prg / cbm_load_file: the source, the bytes read, the
                \* result
    app,        \* the TUI: App and FilesApp of src/src/textui
    stopped,    \* shell: `stop` has halted the CPU and no `start` has followed
    stray       \* device: unsolicited bytes sent while the monitor is flushed

\* the TUI, the shell and the unsolicited output of the device
uiVars == <<app, stopped, stray>>

\* what the steps of read_memory and write_memory leave alone
sessionVars == <<mode, outer, keyIdx, keyFaults, lasm, loader, uiVars>>

vars == <<pc, op, wire, rx, bytes, result, chunkReads, chunks, short, badHex,
          last, calls, sessionVars, overflowChecks, mem, halted, dumpPtr, devLoad,
          sessionVars>>

----------------------------------------------------------------------------
(* Bounds of the model *)

\* longest read request and longest write payload
MaxLen == 33

\* number of calls in one behaviour
MaxCalls == 2

\* keystroke writes that may fail within one command
MaxKeyFaults == 1

\* longest text given to type_text
MaxText == 4

\* largest code point typed alone, U+1F642 apart
MaxChar == 383

\* largest number entered as a selection
MaxIndex == 3

\* longest list of messages of the TUI
MaxMessages == 3

\* unsolicited bytes the device sends during one behaviour
MaxStray == 2

\* start addresses used by the calls: 0x0801, 0xffef, 0xffff
Addresses == {2049, 65519, 65535}

\* first byte of a generated payload
Seeds == {170}

----------------------------------------------------------------------------
(* Program constants *)

\* buffer.resize(27, 0): header of the first dump frame
HeaderFirst == 27

\* buffer.resize(18, 0): header of a continuation frame
HeaderNext == 18

\* buffer.resize(16 * 2, 0): bytes per dump line
ChunkBytes == 16

\* u16 arithmetic of `address + bytes.len() as u16`
U16 == 65536

\* the monitor's address space (28 bit)
AddrSpace == 268435456

\* is_c65_mode: the status address 0xffd3030
ModeAddress == 268251184

\* is_c65_mode: the status byte of the native mode, 0x64
Sentinel == 100

\* load_bytes: assert!(bytes.len() < 0xffff)
MaxFileBytes == 65535

\* "t1\r"
CmdHalt == <<116, 49, 13>>

\* a resume that is written as a halt
CmdResume_Halt == <<116, 49, 13>>

\* "t0\r"
CmdResume == <<116, 48, 13>>

\* "m\r"
CmdContinue == <<109, 13>>

\* [0x15, b'#', b'\r']
CmdCancel == <<21, 35, 13>>

----------------------------------------------------------------------------
(* Formatting and parsing *)

Min(a, b) == IF a < b THEN a ELSE b

\* one digit of {:x}: lower case
HexChar(d) == IF d < 10 THEN 48 + d ELSE 87 + d

\* one digit as the monitor prints it: upper case
HexCharUpper(d) == IF d < 10 THEN 48 + d ELSE 55 + d

RECURSIVE HexDigits(_)
\* format!("{:x}", n)
HexDigits(n) ==
    IF n < 16 THEN <<HexChar(n)>>
    ELSE HexDigits(n \div 16) \o <<HexChar(n % 16)>>

\* format!("{:07x}", n): zero padded to at least w digits, never cut
HexPadded(n, w) ==
    LET d == HexDigits(n)
    IN  IF Len(d) >= w THEN d ELSE [i \in 1..(w - Len(d)) |-> 48] \o d

\* value of one hex character as the hex crate reads it, -1 if invalid
HexVal(c) ==
    IF c >= 48 /\ c <= 57 THEN c - 48
    ELSE IF c >= 97 /\ c <= 102 THEN c - 87
    ELSE IF c >= 65 /\ c <= 70 THEN c - 55
    ELSE -1

\* a decoder that checks the length only
FromHexOk_LengthOnly(buf) == Len(buf) % 2 = 0

\* Vec::from_hex(&buffer) is Ok
FromHexOk(buf) ==
    /\ Len(buf) % 2 = 0
    /\ \A i \in 1..Len(buf) : HexVal(buf[i]) >= 0

\* Vec::from_hex(&buffer): two characters per byte
FromHex(buf) ==
    [i \in 1..(Len(buf) \div 2) |->
        HexVal(buf[2 * i - 1]) * 16 + HexVal(buf[2 * i])]

RECURSIVE ParseHex(_)
\* the monitor's reading of a hex number
ParseHex(s) ==
    IF s = <<>> THEN 0
    ELSE ParseHex(SubSeq(s, 1, Len(s) - 1)) * 16 + HexVal(s[Len(s)])

\* a truncate that keeps the whole last chunk
Truncate_NoCut(b, n) == b

\* bytes.truncate(length)
Truncate(b, n) == SubSeq(b, 1, Min(Len(b), n))

\* a loop test that is off by one: bytes.len() <= length
MoreNeeded_OffByOne(b, n) == Len(b) <= n

\* while bytes.len() < length
MoreNeeded(b, n) == Len(b) < n

\* a read that is content with any bytes that arrived, like port.read
ReadExactOk_Lenient(buf, n) == Len(buf) >= 1

\* port.read_exact(&mut buffer) of n bytes is Ok
ReadExactOk(buf, n) == Len(buf) >= n

\* buffer.resize(n, 0); port.read_exact(&mut buffer): the bytes that arrived,
\* and 0 where none did
Buffer(buf, n) == [i \in 1..n |-> IF i <= Len(buf) THEN buf[i] ELSE 0]

\* what is left in the input buffer after read_exact of n bytes
AfterRead(buf, n) ==
    IF Len(buf) >= n THEN SubSeq(buf, n + 1, Len(buf)) ELSE <<>>

\* a payload of n bytes
Payload(n, seed) == [i \in 1..n |-> (seed + i) % 256]

----------------------------------------------------------------------------
(* The device: a loopback monitor *)

\* memory contents before anything is written: the low byte of the address
Fill(a) == a % 256

\* the byte at an address; the status byte reads 0x64 in native mode
DevPeek(a) ==
    IF a = ModeAddress /\ mode = "native" THEN Sentinel
    ELSE IF a \in DOMAIN mem THEN mem[a] ELSE Fill(a)

\* one dump line: 16 bytes from address a as 32 upper case hex characters
DumpLine(a) ==
    [i \in 1..(2 * ChunkBytes) |->
        LET b == DevPeek((a + ((i - 1) \div 2)) % AddrSpace)
        IN  HexCharUpper(IF i % 2 = 1 THEN b \div 16 ELSE b % 16)]

\* a dump frame: hdr header bytes, then the dump line
DumpFrame(hdr, a) == [i \in 1..hdr |-> 32] \o DumpLine(a)

\* what the transport does to a frame: deliver only the first `cut` bytes,
\* and replace the byte at position `bad` (0 = none) by 'G'
Faults(hdr) ==
    {[cut |-> hdr + 2 * ChunkBytes, bad |-> 0]}
    \cup {[cut |-> k, bad |-> 0] : k \in {10, hdr + 20}}
    \cup {[cut |-> hdr + 2 * ChunkBytes, bad |-> p] :
              p \in {hdr + 1, hdr + 2 * ChunkBytes}}

Deliver(frame, f) ==
    SubSeq([i \in 1..Len(frame) |-> IF i = f.bad THEN 71 ELSE frame[i]],
           1, Min(f.cut, Len(frame)))

\* address named by "m<hex>\r"
DumpAddress(cmd) == ParseHex(SubSeq(cmd, 2, Len(cmd) - 1)) % AddrSpace

\* range named by "l<hex> <hex>\r"
LoadRange(cmd) ==
    LET sp == CHOOSE i \in 1..Len(cmd) : cmd[i] = 32
    IN  <<ParseHex(SubSeq(cmd, 2, sp - 1)),
          ParseHex(SubSeq(cmd, sp + 1, Len(cmd) - 1))>>

\* the device stores the raw bytes that follow a load command into [start, end)
DevStore(range, data) ==
    LET n == Min(Len(data), range[2] - range[1])
        written == {range[1] + i - 1 : i \in 1..n}
    IN  [a \in DOMAIN mem \cup written |->
            IF a \in written THEN data[a - range[1] + 1] ELSE mem[a]]

----------------------------------------------------------------------------
(* Calls *)

NoResult == [state |-> "none", bytes |-> <<>>]

NoOp == [name |-> "none", address |-> 0, length |-> 0, payload |-> <<>>]

NoCall == [name |-> "none", state |-> "none", payload |-> <<>>]

\* LoadAddress::Custom(address)
Custom(address) == [tag |-> "Custom", custom |-> address]

\* a LoadAddress variant without data
Canonical(tag) == [tag |-> tag, custom |-> 0]

\* no command is running
NoOuter ==
    [name |-> "none", state |-> "none", error |-> "", stage |-> "",
     address |-> 0, la |-> Custom(0), payload |-> <<>>, reset |-> FALSE,
     run |-> FALSE, go |-> "", text |-> <<>>, after |-> "",
     native |-> FALSE, seen |-> "none", prev |-> "none"]

\* no LoadAddress under construction
NoLoadAddress == [pc |-> "idle", a |-> 0, la |-> Custom(0), v |-> 0]

\* nothing is being loaded
NoLoader ==
    [pc |-> "idle", via |-> "", file |-> <<>>, route |-> "",
     content |-> <<>>, dir |-> <<>>, listed |-> <<>>, index |-> 0,
     entry |-> 0, bytes |-> <<>>, la |-> Custom(0), error |-> ""]

\* the TUI has not been started.  A selection is -1 for None, or an index
\* from 0.  `disk` is the title of the item whose image is open, 0 for None;
\* `ran` is the last program read from an image: the item selected and the
\* item of the image; `fault` is the device operation of the last key event
\* that returned an error.
NoApp ==
    [loop |-> "off", panic |-> "", widget |-> "FileSelector",
     items |-> <<>>, toggle_sort |-> FALSE, table |-> -1, action |-> -1,
     browser |-> -1, entries |-> 0, disk |-> 0, messages |-> <<>>,
     busy |-> FALSE, fault |-> "", ran |-> [item |-> 0, disk |-> 0]]

\* no command is running and no key has been typed
Fresh ==
    /\ outer = NoOuter
    /\ loader = NoLoader
    /\ keyIdx = 0
    /\ keyFaults = 0
    /\ app = NoApp
    /\ stopped = FALSE
    /\ stray = 0

\* no call has been made on the port, the device is untouched
Quiet ==
    /\ pc = "idle"
    /\ op = NoOp
    /\ wire = <<>>
    /\ rx = <<>>
    /\ bytes = <<>>
    /\ result = NoResult
    /\ chunkReads = 0
    /\ chunks = <<>>
    /\ short = FALSE
    /\ badHex = FALSE
    /\ last = NoCall
    /\ calls = 0
    /\ overflowChecks = "unset"
    /\ mem = <<>>
    /\ halted = FALSE
    /\ dumpPtr = 0
    /\ devLoad = <<>>

Init ==
    /\ Quiet
    /\ mode = "native"
    /\ Fresh
    /\ lasm = NoLoadAddress

\* one behaviour works on one block: every call after the first names the
\* address and the length of the first
SameBlock(a, n) == pc = "idle" \/ (a = op.address /\ n = op.length)

\* a new call starts when none is running
Begin(o, first) ==
    /\ pc \in {"idle", "done"}
    /\ calls < MaxCalls
    /\ SameBlock(o.address, o.length)
    /\ calls' = calls + 1
    /\ last' = IF pc = "idle" THEN last
               ELSE [name |-> op.name, state |-> result.state,
                     payload |-> op.payload]
    /\ op' = o
    /\ pc' = first
    /\ wire' = <<>>
    /\ bytes' = <<>>
    /\ result' = NoResult
    /\ chunkReads' = 0
    /\ chunks' = <<>>
    /\ short' = FALSE
    /\ badHex' = FALSE
    /\ UNCHANGED <<rx, overflowChecks, mem, halted, dumpPtr, devLoad,
                   sessionVars>>

\* the call returns Ok(b) or Err
Return(state, b) ==
    /\ pc' = "done"
    /\ result' = [state |-> state, bytes |-> b]

\* outcomes of write_all followed by flush
WriteOutcomes == {"ok", "write_err", "flush_err"}

Sent(outcome) == outcome # "write_err"

\* stop_cpu / start_cpu as seen by the device
DevHalt(outcome, h) ==
    /\ halted' = IF Sent(outcome) THEN h ELSE halted
    /\ UNCHANGED <<mem, dumpPtr, devLoad, rx>>

----------------------------------------------------------------------------
(* read_memory, src/src/lib/serial.rs *)

CallReadMemory ==
    \E a \in Addresses, n \in 0..MaxLen :
        Begin([name |-> "read_memory", address |-> a, length |-> n,
               payload |-> <<>>], "rm_flush")

\* flush_monitor: port.write_all(&[0x15, b'#', b'\r'])?
FlushMonitorWrite ==
    /\ pc = "rm_flush"
    /\ \E sent \in BOOLEAN :
        \/ /\ sent
           /\ wire' = Append(wire, CmdCancel)
           /\ pc' = "rm_drain"
           /\ UNCHANGED result
        \/ /\ ~sent
           /\ Return("err", <<>>)
           /\ UNCHANGED wire
    /\ UNCHANGED <<chunks, short, badHex>>
    /\ UNCHANGED <<op, rx, bytes, chunkReads, last, calls, sessionVars, overflowChecks,
                   mem, halted, dumpPtr, devLoad>>

\* flush_monitor: loop { match port.read_exact(&mut byte) { Ok => continue,
\* Err => break } }
FlushMonitorRead ==
    /\ pc = "rm_drain"
    /\ \/ /\ ReadExactOk(rx, 1)
          /\ rx' = AfterRead(rx, 1)
          /\ UNCHANGED pc
       \/ /\ ~ReadExactOk(rx, 1)
          /\ pc' = "rm_stop"
          /\ UNCHANGED rx
    /\ UNCHANGED <<chunks, short, badHex>>
    /\ UNCHANGED <<op, wire, bytes, result, chunkReads, last, calls, sessionVars,
                   overflowChecks, mem, halted, dumpPtr, devLoad>>

\* stop_cpu(port)?
RM_StopCpu ==
    /\ pc = "rm_stop"
    /\ \E outcome \in WriteOutcomes :
        /\ wire' = IF Sent(outcome) THEN Append(wire, CmdHalt) ELSE wire
        /\ DevHalt(outcome, TRUE)
        /\ \/ /\ outcome = "ok"
              /\ pc' = "rm_dump"
              /\ UNCHANGED result
           \/ /\ outcome # "ok"
              /\ Return("err", <<>>)
    /\ UNCHANGED <<chunks, short, badHex>>
    /\ UNCHANGED <<op, bytes, chunkReads, last, calls, sessionVars, overflowChecks>>

\* "m{:07x}\r"
DumpStartCmd(address) == <<109>> \o HexPadded(address, 7) \o <<13>>

\* port.write_all(format!("m{:07x}\r", address).as_bytes())?
RM_DumpStart ==
    /\ pc = "rm_dump"
    /\ \E sent \in BOOLEAN :
        \/ /\ sent
           /\ wire' = Append(wire, DumpStartCmd(op.address))
           /\ \E f \in Faults(HeaderFirst) :
                rx' = rx \o Deliver(DumpFrame(HeaderFirst,
                                   DumpAddress(DumpStartCmd(op.address))), f)
           /\ dumpPtr' = (DumpAddress(DumpStartCmd(op.address)) + ChunkBytes)
                            % AddrSpace
           /\ pc' = "rm_header"
           /\ UNCHANGED result
        \/ /\ ~sent
           /\ Return("err", <<>>)
           /\ UNCHANGED <<wire, rx, dumpPtr>>
    /\ UNCHANGED <<chunks, short, badHex>>
    /\ UNCHANGED <<op, bytes, chunkReads, last, calls, sessionVars, overflowChecks,
                   mem, halted, devLoad>>

\* buffer.resize(27, 0); port.read_exact(&mut buffer)?; then the loop test
RM_SkipHeader ==
    /\ pc = "rm_header"
    /\ rx' = AfterRead(rx, HeaderFirst)
    /\ short' = (short \/ Len(rx) < HeaderFirst)
    /\ \/ /\ ReadExactOk(rx, HeaderFirst)
          /\ pc' = IF MoreNeeded(bytes, op.length) THEN "rm_chunk"
                   ELSE "rm_start"
          /\ UNCHANGED result
       \/ /\ ~ReadExactOk(rx, HeaderFirst)
          /\ Return("err", <<>>)
    /\ UNCHANGED <<chunks, badHex>>
    /\ UNCHANGED <<op, wire, bytes, chunkReads, last, calls, sessionVars, overflowChecks,
                   mem, halted, dumpPtr, devLoad>>

\* buffer.resize(16 * 2, 0); port.read_exact(&mut buffer)?;
\* let mut sixteen_bytes = Vec::from_hex(&buffer)?; bytes.append(..)
RM_ReadChunk ==
    /\ pc = "rm_chunk"
    /\ chunkReads' = chunkReads + 1
    /\ rx' = AfterRead(rx, 2 * ChunkBytes)
    /\ short' = (short \/ Len(rx) < 2 * ChunkBytes)
    /\ LET buffer == Buffer(rx, 2 * ChunkBytes)
           full == Len(rx) >= 2 * ChunkBytes
       IN  /\ badHex' = (badHex \/ (full /\ \E i \in 1..Len(buffer) :
                                                  HexVal(buffer[i]) < 0))
           /\ chunks' = IF full THEN chunks \o buffer ELSE chunks
           /\ \/ /\ ReadExactOk(rx, 2 * ChunkBytes)
                 /\ FromHexOk(buffer)
                 /\ bytes' = bytes \o FromHex(buffer)
                 /\ pc' = "rm_next"
                 /\ UNCHANGED result
              \/ /\ ReadExactOk(rx, 2 * ChunkBytes)
                 /\ ~FromHexOk(buffer)
                 /\ Return("err", <<>>)
                 /\ UNCHANGED bytes
              \/ /\ ~ReadExactOk(rx, 2 * ChunkBytes)
                 /\ Return("err", <<>>)
                 /\ UNCHANGED bytes
    /\ UNCHANGED <<op, wire, last, calls, sessionVars, overflowChecks,
                   mem, halted, dumpPtr, devLoad>>

\* port.write_all("m\r".as_bytes())?
RM_DumpContinue ==
    /\ pc = "rm_next"
    /\ \E sent \in BOOLEAN :
        \/ /\ sent
           /\ wire' = Append(wire, CmdContinue)
           /\ \E f \in Faults(HeaderNext) :
                rx' = rx \o Deliver(DumpFrame(HeaderNext, dumpPtr), f)
           /\ dumpPtr' = (dumpPtr + ChunkBytes) % AddrSpace
           /\ pc' = "rm_next_header"
           /\ UNCHANGED result
        \/ /\ ~sent
           /\ Return("err", <<>>)
           /\ UNCHANGED <<wire, rx, dumpPtr>>
    /\ UNCHANGED <<chunks, short, badHex>>
    /\ UNCHANGED <<op, bytes, chunkReads, last, calls, sessionVars, overflowChecks,
                   mem, halted, devLoad>>

\* buffer.resize(18, 0); port.read_exact(&mut buffer)?; then the loop test
RM_SkipNextHeader ==
    /\ pc = "rm_next_header"
    /\ rx' = AfterRead(rx, HeaderNext)
    /\ short' = (short \/ Len(rx) < HeaderNext)
    /\ \/ /\ ReadExactOk(rx, HeaderNext)
          /\ pc' = IF MoreNeeded(bytes, op.length) THEN "rm_chunk"
                   ELSE "rm_start"
          /\ UNCHANGED result
       \/ /\ ~ReadExactOk(rx, HeaderNext)
          /\ Return("err", <<>>)
    /\ UNCHANGED <<chunks, badHex>>
    /\ UNCHANGED <<op, wire, bytes, chunkReads, last, calls, sessionVars, overflowChecks,
                   mem, halted, dumpPtr, devLoad>>

\* bytes.truncate(length); start_cpu(port)?; Ok(bytes)
RM_StartCpu ==
    /\ pc = "rm_start"
    /\ bytes' = Truncate(bytes, op.length)
    /\ \E outcome \in WriteOutcomes :
        /\ wire' = IF Sent(outcome) THEN Append(wire, CmdResume) ELSE wire
        /\ DevHalt(outcome, FALSE)
        /\ \/ /\ outcome = "ok"
              /\ Return("ok", Truncate(bytes, op.length))
           \/ /\ outcome # "ok"
              /\ Return("err", <<>>)
    /\ UNCHANGED <<chunks, short, badHex>>
    /\ UNCHANGED <<op, chunkReads, last, calls, sessionVars, overflowChecks>>

ReadMemory ==
    \/ CallReadMemory
    \/ FlushMonitorWrite
    \/ FlushMonitorRead
    \/ RM_StopCpu
    \/ RM_DumpStart
    \/ RM_SkipHeader
    \/ RM_ReadChunk
    \/ RM_DumpContinue
    \/ RM_SkipNextHeader
    \/ RM_StartCpu

----------------------------------------------------------------------------
(* load_memory, src/src/serial.rs: the older read *)

CallLoadMemory ==
    \E a \in Addresses, n \in 0..MaxLen :
        Begin([name |-> "load_memory", address |-> a, length |-> n,
               payload |-> <<>>], "lm_stop")

\* stop_cpu(port)?
LM_StopCpu ==
    /\ pc = "lm_stop"
    /\ \E outcome \in WriteOutcomes :
        /\ wire' = IF Sent(outcome) THEN Append(wire, CmdHalt) ELSE wire
        /\ DevHalt(outcome, TRUE)
        /\ \/ /\ outcome = "ok"
              /\ pc' = "lm_dump"
              /\ UNCHANGED result
           \/ /\ outcome # "ok"
              /\ Return("err", <<>>)
    /\ UNCHANGED <<chunks, short, badHex>>
    /\ UNCHANGED <<op, bytes, chunkReads, last, calls, sessionVars, overflowChecks>>

\* port.write_all(format!("m{:07x}\r", address).as_bytes())?
LM_DumpStart ==
    /\ pc = "lm_dump"
    /\ \E sent \in BOOLEAN :
        \/ /\ sent
           /\ wire' = Append(wire, DumpStartCmd(op.address))
           /\ \E f \in Faults(HeaderFirst) :
                rx' = rx \o Deliver(DumpFrame(HeaderFirst,
                                   DumpAddress(DumpStartCmd(op.address))), f)
           /\ dumpPtr' = (DumpAddress(DumpStartCmd(op.address)) + ChunkBytes)
                            % AddrSpace
           /\ pc' = "lm_header"
           /\ UNCHANGED result
        \/ /\ ~sent
           /\ Return("err", <<>>)
           /\ UNCHANGED <<wire, rx, dumpPtr>>
    /\ UNCHANGED <<chunks, short, badHex>>
    /\ UNCHANGED <<op, bytes, chunkReads, last, calls, sessionVars, overflowChecks,
                   mem, halted, devLoad>>

\* the loop exit of load_memory: bytes.truncate(length); Ok(bytes)
LM_AfterFrame ==
    IF MoreNeeded(bytes, op.length)
    THEN pc' = "lm_chunk" /\ UNCHANGED <<result, bytes>>
    ELSE Return("ok", Truncate(bytes, op.length))
         /\ bytes' = Truncate(bytes, op.length)

\* buffer.resize(27, 0); port.read_exact(&mut buffer)?; then the loop test
LM_SkipHeader ==
    /\ pc = "lm_header"
    /\ rx' = AfterRead(rx, HeaderFirst)
    /\ short' = (short \/ Len(rx) < HeaderFirst)
    /\ \/ /\ ReadExactOk(rx, HeaderFirst)
          /\ LM_AfterFrame
       \/ /\ ~ReadExactOk(rx, HeaderFirst)
          /\ Return("err", <<>>)
          /\ UNCHANGED bytes
    /\ UNCHANGED <<chunks, badHex>>
    /\ UNCHANGED <<op, wire, chunkReads, last, calls, sessionVars, overflowChecks,
                   mem, halted, dumpPtr, devLoad>>

\* port.read_exact(&mut buffer)?;
\* Vec::from_hex(&buffer).expect("invalid hex"): a panic on invalid hex
LM_ReadChunk ==
    /\ pc = "lm_chunk"
    /\ chunkReads' = chunkReads + 1
    /\ rx' = AfterRead(rx, 2 * ChunkBytes)
    /\ short' = (short \/ Len(rx) < 2 * ChunkBytes)
    /\ LET buffer == Buffer(rx, 2 * ChunkBytes)
           full == Len(rx) >= 2 * ChunkBytes
       IN  /\ badHex' = (badHex \/ (full /\ \E i \in 1..Len(buffer) :
                                                  HexVal(buffer[i]) < 0))
           /\ chunks' = IF full THEN chunks \o buffer ELSE chunks
           /\ \/ /\ ReadExactOk(rx, 2 * ChunkBytes)
                 /\ FromHexOk(buffer)
                 /\ bytes' = bytes \o FromHex(buffer)
                 /\ pc' = "lm_next"
                 /\ UNCHANGED result
              \/ /\ ReadExactOk(rx, 2 * ChunkBytes)
                 /\ ~FromHexOk(buffer)
                 /\ pc' = "abort"
                 /\ UNCHANGED <<bytes, result>>
              \/ /\ ~ReadExactOk(rx, 2 * ChunkBytes)
                 /\ Return("err", <<>>)
                 /\ UNCHANGED bytes
    /\ UNCHANGED <<op, wire, last, calls, sessionVars, overflowChecks,
                   mem, halted, dumpPtr, devLoad>>

\* port.write_all("m\r".to_string().as_bytes())?
LM_DumpContinue ==
    /\ pc = "lm_next"
    /\ \E sent \in BOOLEAN :
        \/ /\ sent
           /\ wire' = Append(wire, CmdContinue)
           /\ \E f \in Faults(HeaderNext) :
                rx' = rx \o Deliver(DumpFrame(HeaderNext, dumpPtr), f)
           /\ dumpPtr' = (dumpPtr + ChunkBytes) % AddrSpace
           /\ pc' = "lm_next_header"
           /\ UNCHANGED result
        \/ /\ ~sent
           /\ Return("err", <<>>)
           /\ UNCHANGED <<wire, rx, dumpPtr>>
    /\ UNCHANGED <<chunks, short, badHex>>
    /\ UNCHANGED <<op, bytes, chunkReads, last, calls, sessionVars, overflowChecks,
                   mem, halted, devLoad>>

\* buffer.resize(18, 0); port.read_exact(&mut buffer)?; then the loop test
LM_SkipNextHeader ==
    /\ pc = "lm_next_header"
    /\ rx' = AfterRead(rx, HeaderNext)
    /\ short' = (short \/ Len(rx) < HeaderNext)
    /\ \/ /\ ReadExactOk(rx, HeaderNext)
          /\ LM_AfterFrame
       \/ /\ ~ReadExactOk(rx, HeaderNext)
          /\ Return("err", <<>>)
          /\ UNCHANGED bytes
    /\ UNCHANGED <<chunks, badHex>>
    /\ UNCHANGED <<op, wire, chunkReads, last, calls, sessionVars, overflowChecks,
                   mem, halted, dumpPtr, devLoad>>

LoadMemory ==
    \/ CallLoadMemory
    \/ LM_StopCpu
    \/ LM_DumpStart
    \/ LM_SkipHeader
    \/ LM_ReadChunk
    \/ LM_DumpContinue
    \/ LM_SkipNextHeader

----------------------------------------------------------------------------
(* write_memory, src/src/lib/serial.rs *)

CallWriteMemory ==
    \E a \in Addresses, n \in 0..MaxLen, seed \in Seeds :
        Begin([name |-> "write_memory", address |-> a, length |-> n,
               payload |-> Payload(n, seed)], "wm_stop")

\* stop_cpu(port)?
WM_StopCpu ==
    /\ pc = "wm_stop"
    /\ \E outcome \in WriteOutcomes :
        /\ wire' = IF Sent(outcome) THEN Append(wire, CmdHalt) ELSE wire
        /\ DevHalt(outcome, TRUE)
        /\ \/ /\ outcome = "ok"
              /\ pc' = "wm_range"
              /\ UNCHANGED result
           \/ /\ outcome # "ok"
              /\ Return("err", <<>>)
    /\ UNCHANGED <<chunks, short, badHex>>
    /\ UNCHANGED <<op, bytes, chunkReads, last, calls, sessionVars, overflowChecks>>

\* address + bytes.len() as u16, before any overflow handling
EndSum(address, payload) == address + (Len(payload) % U16)

\* format!("l{:x} {:x}\r", address, address + bytes.len() as u16)
LoadRangeCmd(address, payload) ==
    <<108>> \o HexDigits(address) \o <<32>>
            \o HexDigits(EndSum(address, payload) % U16) \o <<13>>

\* port.write_all(format!("l{:x} {:x}\r", ..).as_bytes())?
\* The u16 sum panics in a build with overflow checks and wraps in one without.
WM_LoadRange ==
    /\ pc = "wm_range"
    /\ \/ /\ EndSum(op.address, op.payload) >= U16
          /\ overflowChecks \in {"unset", "panic"}
          /\ overflowChecks' = "panic"
          /\ pc' = "abort"
          /\ UNCHANGED <<wire, result, devLoad>>
       \/ /\ EndSum(op.address, op.payload) >= U16 =>
                overflowChecks \in {"unset", "wrap"}
          /\ overflowChecks' =
                IF EndSum(op.address, op.payload) >= U16 THEN "wrap"
                ELSE overflowChecks
          /\ \E sent \in BOOLEAN :
              \/ /\ sent
                 /\ wire' = Append(wire, LoadRangeCmd(op.address, op.payload))
                 /\ devLoad' = LoadRange(LoadRangeCmd(op.address, op.payload))
                 /\ pc' = "wm_payload"
                 /\ UNCHANGED result
              \/ /\ ~sent
                 /\ Return("err", <<>>)
                 /\ UNCHANGED <<wire, devLoad>>
    /\ UNCHANGED <<chunks, short, badHex>>
    /\ UNCHANGED <<op, rx, bytes, chunkReads, last, calls, sessionVars,
                   mem, halted, dumpPtr>>

\* port.write_all(bytes)?
WM_Payload ==
    /\ pc = "wm_payload"
    /\ \E sent \in BOOLEAN :
        \/ /\ sent
           /\ wire' = Append(wire, op.payload)
           /\ mem' = DevStore(devLoad, op.payload)
           /\ devLoad' = <<>>
           /\ pc' = "wm_start"
           /\ UNCHANGED result
        \/ /\ ~sent
           /\ Return("err", <<>>)
           /\ UNCHANGED <<wire, mem, devLoad>>
    /\ UNCHANGED <<chunks, short, badHex>>
    /\ UNCHANGED <<op, rx, bytes, chunkReads, last, calls, sessionVars, overflowChecks,
                   halted, dumpPtr>>

\* start_cpu(port)?; Ok(())
WM_StartCpu ==
    /\ pc = "wm_start"
    /\ \E outcome \in WriteOutcomes :
        /\ wire' = IF Sent(outcome) THEN Append(wire, CmdResume) ELSE wire
        /\ DevHalt(outcome, FALSE)
        /\ \/ /\ outcome = "ok"
              /\ Return("ok", <<>>)
           \/ /\ outcome # "ok"
              /\ Return("err", <<>>)
    /\ UNCHANGED <<chunks, short, badHex>>
    /\ UNCHANGED <<op, bytes, chunkReads, last, calls, sessionVars, overflowChecks>>

WriteMemory ==
    \/ CallWriteMemory
    \/ WM_StopCpu
    \/ WM_LoadRange
    \/ WM_Payload
    \/ WM_StartCpu

----------------------------------------------------------------------------

Next ==
    \/ ReadMemory
    \/ LoadMemory
    \/ WriteMemory

Spec == Init /\ [][Next]_vars

----------------------------------------------------------------------------
(* LoadAddress, src/src/lib/lib.rs *)

\* LoadAddress::new with the Commodore 128 entry missing
LoadAddressNew_NoC128(address) ==
    CASE address = 1025 -> Canonical("PET")
      [] address = 2049 -> Canonical("Commodore64")
      [] address = 4097 -> Canonical("Commodore16")
      [] address = 8193 -> Canonical("Commodore65")
      [] OTHER -> Custom(address)

\* LoadAddress::new(address): 0x0401, 0x0801, 0x1001, 0x1c01, 0x2001, or Custom
LoadAddressNew(address) ==
    CASE address = 1025 -> Canonical("PET")
      [] address = 2049 -> Canonical("Commodore64")
      [] address = 4097 -> Canonical("Commodore16")
      [] address = 7169 -> Canonical("Commodore128")
      [] address = 8193 -> Canonical("Commodore65")
      [] OTHER -> Custom(address)

\* LoadAddress::value with the addresses of Commodore 64 and 65 swapped
LoadAddressValue_Swapped(la) ==
    CASE la.tag = "PET" -> 1025
      [] la.tag = "Commodore64" -> 8193
      [] la.tag = "Commodore16" -> 4097
      [] la.tag = "Commodore128" -> 7169
      [] la.tag = "Commodore65" -> 2049
      [] la.tag = "Custom" -> la.custom

\* LoadAddress::value(&self)
LoadAddressValue(la) ==
    CASE la.tag = "PET" -> 1025
      [] la.tag = "Commodore64" -> 2049
      [] la.tag = "Commodore16" -> 4097
      [] la.tag = "Commodore128" -> 7169
      [] la.tag = "Commodore65" -> 8193
      [] la.tag = "Custom" -> la.custom

\* what every step on a LoadAddress leaves alone
LA_Frame ==
    UNCHANGED <<pc, op, wire, rx, bytes, result, chunkReads, chunks, short,
                badHex, last, calls, overflowChecks, mem, halted, dumpPtr,
                devLoad, mode, outer, keyIdx, keyFaults, loader, uiVars>>

\* any 16 bit value is given to LoadAddress::new
LoadAddressInit ==
    /\ Quiet
    /\ mode = "native"
    /\ Fresh
    /\ \E a \in 0..(U16 - 1) :
        lasm = [pc |-> "input", a |-> a, la |-> Custom(0), v |-> 0]

\* let la = LoadAddress::new(a)
LA_New ==
    /\ lasm.pc = "input"
    /\ lasm' = [lasm EXCEPT !.pc = "new", !.la = LoadAddressNew(lasm.a)]
    /\ LA_Frame

\* let v = la.value()
LA_Value ==
    /\ lasm.pc = "new"
    /\ lasm' = [lasm EXCEPT !.pc = "value", !.v = LoadAddressValue(lasm.la)]
    /\ LA_Frame

LoadAddressNext ==
    \/ LA_New
    \/ LA_Value

LoadAddressSpec == LoadAddressInit /\ [][LoadAddressNext]_vars

----------------------------------------------------------------------------
(* Keystrokes: type_key, stop_typing, type_text, src/src/lib/serial.rs *)

\* the characters typed with shift: ! " # $ % ( ) ? < >
Shifted == {33, 34, 35, 36, 37, 40, 41, 63, 60, 62}

\* a lookup that keeps the shifted character
Unshift_None(key) == key

\* the key a shifted character is typed with: 1 2 3 4 5 8 9 / , .
Unshift(key) ==
    CASE key = 33 -> 49
      [] key = 34 -> 50
      [] key = 35 -> 51
      [] key = 36 -> 52
      [] key = 37 -> 53
      [] key = 40 -> 56
      [] key = 41 -> 57
      [] key = 63 -> 47
      [] key = 60 -> 44
      [] key = 62 -> 46
      [] OTHER -> key

\* the arms of `match key as u8` that set c1 alone
KeyC1(b) ==
    CASE b = 20 -> 0
      [] b = 13 -> 1
      [] b = 29 -> 2
      [] b = 247 -> 3
      [] b = 243 -> 5
      [] b = 245 -> 6
      [] b = 17 -> 7
      [] b = 51 -> 8
      [] b = 119 -> 9
      [] b = 97 -> 10
      [] b = 52 -> 11
      [] b = 122 -> 12
      [] b = 115 -> 13
      [] b = 101 -> 14
      [] b = 53 -> 16
      [] b = 114 -> 17
      [] b = 100 -> 18
      [] b = 54 -> 19
      [] b = 99 -> 20
      [] b = 102 -> 21
      [] b = 116 -> 22
      [] b = 120 -> 23
      [] b = 55 -> 24
      [] b = 121 -> 25
      [] b = 103 -> 26
      [] b = 56 -> 27
      [] b = 98 -> 28
      [] b = 104 -> 29
      [] b = 117 -> 30
      [] b = 118 -> 31
      [] b = 57 -> 32
      [] b = 105 -> 33
      [] b = 106 -> 34
      [] b = 48 -> 35
      [] b = 109 -> 36
      [] b = 107 -> 37
      [] b = 111 -> 38
      [] b = 110 -> 39
      [] b = 43 -> 40
      [] b = 112 -> 41
      [] b = 108 -> 42
      [] b = 45 -> 43
      [] b = 46 -> 44
      [] b = 58 -> 45
      [] b = 64 -> 46
      [] b = 44 -> 47
      [] b = 125 -> 48
      [] b = 42 -> 49
      [] b = 59 -> 50
      [] b = 19 -> 51
      [] b = 61 -> 53
      [] b = 47 -> 55
      [] b = 49 -> 56
      [] b = 95 -> 57
      [] b = 50 -> 59
      [] b = 32 -> 60
      [] b = 113 -> 62
      [] b = 3 -> 63
      [] b = 12 -> 63
      [] OTHER -> 127

\* type_key: the matrix codes <<c1, c2>> of a character
TypeKeyCodes(key) ==
    LET k == IF key \in Shifted THEN Unshift(key) ELSE key
        c2 == IF key \in Shifted THEN 15 ELSE 127
        b == k % 256
    IN  CASE b = 157 -> <<2, 15>>
          [] b = 145 -> <<7, 15>>
          [] b = 241 -> <<127, 4>>
          [] OTHER -> <<KeyC1(b), c2>>

\* format!("sffd3615 {:02x} {:02x}\n", c1, c2)
KeyCmd(key) ==
    <<115, 102, 102, 100, 51, 54, 49, 53, 32>>
        \o HexPadded(TypeKeyCodes(key)[1], 2) \o <<32>>
        \o HexPadded(TypeKeyCodes(key)[2], 2) \o <<10>>

\* a release that carries the pair once
StopTypingCmd_Once == <<115, 102, 102, 100, 51, 54, 49, 53, 32, 55, 102, 32, 10>>

\* stop_typing: "sffd3615 7f 7f 7f \n"
StopTypingCmd ==
    <<115, 102, 102, 100, 51, 54, 49, 53, 32, 55, 102, 32, 55, 102, 32, 55,
      102, 32, 10>>

\* reset: "!\n"
CmdReset == <<33, 10>>

RECURSIVE ReplaceAll(_, _, _)
\* str::replace(pat, by)
ReplaceAll(s, pat, by) ==
    IF Len(s) < Len(pat) THEN s
    ELSE IF SubSeq(s, 1, Len(pat)) = pat
         THEN by \o ReplaceAll(SubSeq(s, Len(pat) + 1, Len(s)), pat, by)
         ELSE <<s[1]>> \o ReplaceAll(Tail(s), pat, by)

\* a normalization that knows backslash-r only
Normalize_OnlyR(text) == ReplaceAll(text, <<92, 114>>, <<13>>)

\* text.replace("\\r", "\r").replace("\\n", "\r")
Normalize(text) ==
    ReplaceAll(ReplaceAll(text, <<92, 114>>, <<13>>), <<92, 110>>, <<13>>)

\* go64: "go64\ry\r"
GoText == <<103, 111, 54, 52, 13, 121, 13>>

\* handle_prg_from_bytes: "run\r"
RunText == <<114, 117, 110, 13>>

\* the keystroke commands of a text, in order
KeyCmds(text) == [i \in 1..Len(Normalize(text)) |-> KeyCmd(Normalize(text)[i])]

----------------------------------------------------------------------------
(* Commands: poke, is_c65_mode, go64, go65, handle_prg_from_bytes *)

\* the commands that only probe or change the mode
ModeCommands == {"go64", "go65", "is_c65_mode", "default_is_c65_mode"}

\* start addresses given to poke
PokeAddresses == Addresses \cup {0}

\* load addresses given to handle_prg_from_bytes
LoadAddresses ==
    {LoadAddressNew(a) : a \in {1025, 2049, 4097, 7169, 8193, 49152}}
        \cup {Custom(2049)}

\* payload lengths given to handle_prg_from_bytes
PrgLengths == {0, 17}

\* the read that a probe makes
ProbeOp(length) ==
    [name |-> "read_memory", address |-> ModeAddress, length |-> length,
     payload |-> <<>>]

\* an inner call of read_memory or write_memory starts
Enter(o, first) ==
    /\ pc' = first
    /\ op' = o
    /\ bytes' = <<>>
    /\ result' = NoResult
    /\ chunkReads' = 0
    /\ chunks' = <<>>
    /\ short' = FALSE
    /\ badHex' = FALSE

\* the state of an inner call
callVars == <<pc, op, bytes, result, chunkReads, chunks, short, badHex>>

\* a command starts when none is running; a panic ends the process.  One
\* behaviour is one poke, one handle_prg_from_bytes, or up to MaxCalls mode
\* commands.
StartCommand(o, inner, first) ==
    /\ outer.state \in {"none", "ok", "err"}
    /\ pc \in {"idle", "done"}
    /\ calls < MaxCalls
    /\ calls > 0 => (o.name \in ModeCommands /\ outer.name \in ModeCommands)
    /\ calls' = calls + 1
    /\ outer' = [o EXCEPT !.state = "running", !.prev = outer.seen]
    /\ wire' = <<>>
    /\ keyIdx' = 0
    /\ keyFaults' = 0
    /\ Enter(inner, first)
    /\ UNCHANGED <<rx, last, overflowChecks, mem, halted, dumpPtr, devLoad,
                   mode, lasm, uiVars>>

\* a command that loads nothing starts
BeginCommand(o, inner, first) ==
    /\ StartCommand(o, inner, first)
    /\ UNCHANGED loader

\* the command returns Ok, returns Err(error), or panics
Finish(state, error) ==
    outer' = [outer EXCEPT !.state = state, !.error = error, !.stage = "end"]

\* u16::checked_add that accepts every sum
CheckedAdd_Lenient(a, b) == a + b

\* u16::checked_add: the sum, or -1 for None
CheckedAdd(a, b) == IF a + b < U16 THEN a + b ELSE -1

\* poke(file, value, address, port): bytes come from the file or are the value
CallPoke ==
    \E a \in PokeAddresses, n \in 0..MaxLen, seed \in Seeds :
        BeginCommand([NoOuter EXCEPT !.name = "poke", !.stage = "validate",
                                     !.address = a,
                                     !.payload = Payload(n, seed)],
                     NoOp, "idle")

\* if parsed_address.checked_add(bytes.len() as u16 - 1).is_none() { return
\* Err(..) }; write_memory(port, parsed_address, &bytes)?
\* The u16 difference panics in a build with overflow checks and wraps in one
\* without.
PokeValidate ==
    /\ outer.state = "running"
    /\ outer.stage = "validate"
    /\ LET n == Len(outer.payload) % U16
       IN  \/ /\ n = 0
              /\ overflowChecks \in {"unset", "panic"}
              /\ overflowChecks' = "panic"
              /\ Finish("abort", "underflow")
              /\ UNCHANGED callVars
           \/ /\ n = 0 => overflowChecks \in {"unset", "wrap"}
              /\ overflowChecks' = IF n = 0 THEN "wrap" ELSE overflowChecks
              /\ IF CheckedAdd(outer.address, (n - 1) % U16) < 0
                 THEN /\ Finish("err", "outside")
                      /\ UNCHANGED callVars
                 ELSE /\ outer' = [outer EXCEPT !.stage = "writing"]
                      /\ Enter([name |-> "write_memory",
                                address |-> outer.address,
                                length |-> Len(outer.payload),
                                payload |-> outer.payload], "wm_stop")
    /\ UNCHANGED <<wire, rx, last, calls, mem, halted, dumpPtr, devLoad, mode,
                   keyIdx, keyFaults, lasm, loader, uiVars>>

\* handle_prg_from_bytes(port, bytes, load_address, reset_before_run, run)
CallHandlePrg ==
    \E la \in LoadAddresses, n \in PrgLengths, seed \in Seeds,
       reset \in BOOLEAN, run \in BOOLEAN :
        BeginCommand([NoOuter EXCEPT !.name = "handle_prg_from_bytes",
                                     !.stage = IF reset THEN "reset"
                                               ELSE "dispatch",
                                     !.la = la,
                                     !.payload = Payload(n, seed),
                                     !.reset = reset,
                                     !.run = run],
                     NoOp, "idle")

\* the device after a reset: native mode, CPU running
DevReset(sent) ==
    /\ mode' = IF sent THEN "native" ELSE mode
    /\ halted' = IF sent THEN FALSE ELSE halted

\* if reset_before_run { reset(port)?; }
HP_Reset ==
    /\ outer.state = "running"
    /\ outer.stage = "reset"
    /\ \E sent \in BOOLEAN :
        /\ wire' = IF sent THEN Append(wire, CmdReset) ELSE wire
        /\ DevReset(sent)
        /\ IF sent THEN outer' = [outer EXCEPT !.stage = "dispatch"]
           ELSE Finish("err", "transport")
    /\ UNCHANGED <<callVars, rx, last, calls, overflowChecks, mem, dumpPtr,
                   devLoad, keyIdx, keyFaults, lasm, loader, uiVars>>

\* match load_address { Commodore65 => go65, Commodore64 => go64, _ => Err }
GoFor(la) ==
    CASE la.tag = "Commodore65" -> "go65"
      [] la.tag = "Commodore64" -> "go64"
      [] OTHER -> "none"

\* match load_address { .. => go65(port)?, .. => go64(port)?,
\* _ => return Err("unsupported load address") }
HP_Dispatch ==
    /\ outer.state = "running"
    /\ outer.stage = "dispatch"
    /\ IF GoFor(outer.la) = "none"
       THEN /\ Finish("err", "unsupported")
            /\ UNCHANGED callVars
       ELSE /\ outer' = [outer EXCEPT !.stage = "probing",
                                      !.go = GoFor(outer.la)]
            /\ Enter(ProbeOp(1), "rm_flush")
    /\ UNCHANGED <<wire, rx, last, calls, overflowChecks, mem, halted, dumpPtr,
                   devLoad, mode, keyIdx, keyFaults, lasm, loader, uiVars>>

\* go64(port)
CallGo64 ==
    BeginCommand([NoOuter EXCEPT !.name = "go64", !.stage = "probing",
                                 !.go = "go64"],
                 ProbeOp(1), "rm_flush")

\* go65(port)
CallGo65 ==
    BeginCommand([NoOuter EXCEPT !.name = "go65", !.stage = "probing",
                                 !.go = "go65"],
                 ProbeOp(1), "rm_flush")

\* serial::is_c65_mode(port): read_memory(port, 0xffd3030, 1)?[0]
CallIsC65Mode ==
    BeginCommand([NoOuter EXCEPT !.name = "is_c65_mode", !.stage = "probing"],
                 ProbeOp(1), "rm_flush")

\* M65Communicator::is_c65_mode: self.read_memory(0xffd3030, 0)?[0]
CallDefaultIsC65Mode ==
    BeginCommand([NoOuter EXCEPT !.name = "default_is_c65_mode",
                                 !.stage = "probing"],
                 ProbeOp(0), "rm_flush")

\* go65 that resets whatever the probe says
NeedsReset_Always(native) == TRUE

\* go65: if !is_c65_mode(port)? { reset }
NeedsReset(native) == ~native

\* go64: if is_c65_mode(port)? { type_text }
NeedsTyping(native) == native

\* let byte = read_memory(..)?[0]; Ok(byte == 0x64), and what go64 and go65
\* do with the answer.  Indexing an empty block panics.
AfterProbe ==
    /\ outer.state = "running"
    /\ outer.stage = "probing"
    /\ pc = "done"
    /\ IF result.state = "err" THEN Finish("err", "transport")
       ELSE IF result.bytes = <<>> THEN Finish("abort", "index")
       ELSE LET native == result.bytes[1] = Sentinel
                seen == [outer EXCEPT !.seen = mode, !.native = native]
            IN  CASE outer.go = "go65" ->
                       outer' = [seen EXCEPT !.stage =
                                    IF NeedsReset(native) THEN "go_reset"
                                    ELSE "go_done"]
                  [] outer.go = "go64" ->
                       outer' = [seen EXCEPT
                                    !.stage = IF NeedsTyping(native)
                                              THEN "typing" ELSE "go_done",
                                    !.text = IF NeedsTyping(native)
                                             THEN GoText ELSE <<>>,
                                    !.after = "go_done"]
                  [] OTHER ->
                       outer' = [seen EXCEPT !.state = "ok", !.stage = "end"]
    /\ keyIdx' = 0
    /\ UNCHANGED <<callVars, wire, rx, last, calls, overflowChecks, mem,
                   halted, dumpPtr, devLoad, mode, keyFaults, lasm, loader, uiVars>>

\* go65: reset(port)?
GoReset ==
    /\ outer.state = "running"
    /\ outer.stage = "go_reset"
    /\ \E sent \in BOOLEAN :
        /\ wire' = IF sent THEN Append(wire, CmdReset) ELSE wire
        /\ DevReset(sent)
        /\ IF sent THEN outer' = [outer EXCEPT !.stage = "go_done"]
           ELSE Finish("err", "transport")
    /\ UNCHANGED <<callVars, rx, last, calls, overflowChecks, mem, dumpPtr,
                   devLoad, keyIdx, keyFaults, lasm, loader, uiVars>>

\* go64 / go65: Ok(())
GoReturn ==
    /\ outer.state = "running"
    /\ outer.stage = "go_done"
    /\ outer.name \in ModeCommands
    /\ Finish("ok", "")
    /\ UNCHANGED <<callVars, wire, rx, last, calls, overflowChecks, mem,
                   halted, dumpPtr, devLoad, mode, keyIdx, keyFaults, lasm, loader, uiVars>>

\* write_memory(port, load_address.value(), bytes)?
HP_Write ==
    /\ outer.state = "running"
    /\ outer.stage = "go_done"
    /\ outer.name = "handle_prg_from_bytes"
    /\ outer' = [outer EXCEPT !.stage = "writing"]
    /\ Enter([name |-> "write_memory",
              address |-> LoadAddressValue(outer.la),
              length |-> Len(outer.payload),
              payload |-> outer.payload], "wm_stop")
    /\ UNCHANGED <<wire, rx, last, calls, overflowChecks, mem, halted, dumpPtr,
                   devLoad, mode, keyIdx, keyFaults, lasm, loader, uiVars>>

\* handle_prg_from_bytes that types "run" whether asked to or not
RunRequested_Always(o) == TRUE

\* if run { type_text(port, "run\r")?; }
RunRequested(o) == o.name = "handle_prg_from_bytes" /\ o.run

\* write_memory(..)? has returned: poke is done, handle_prg_from_bytes goes on
AfterWrite ==
    /\ outer.state = "running"
    /\ outer.stage = "writing"
    /\ pc \in {"done", "abort"}
    /\ IF pc = "abort" THEN Finish("abort", "overflow")
       ELSE IF result.state = "err" THEN Finish("err", "transport")
       ELSE IF RunRequested(outer)
            THEN outer' = [outer EXCEPT !.stage = "typing", !.text = RunText,
                                        !.after = "return"]
            ELSE Finish("ok", "")
    /\ keyIdx' = 0
    /\ UNCHANGED <<callVars, wire, rx, last, calls, overflowChecks, mem,
                   halted, dumpPtr, devLoad, mode, keyFaults, lasm, loader, uiVars>>

\* type_text: type_key(port, key).unwrap_or(()) for the next character; the
\* error of a failed write is dropped
TypeKey ==
    /\ outer.state = "running"
    /\ outer.stage = "typing"
    /\ keyIdx < Len(Normalize(outer.text))
    /\ keyIdx' = keyIdx + 1
    /\ \/ /\ wire' = Append(wire, KeyCmd(Normalize(outer.text)[keyIdx + 1]))
          /\ UNCHANGED keyFaults
       \/ /\ keyFaults < MaxKeyFaults
          /\ keyFaults' = keyFaults + 1
          /\ UNCHANGED wire
    /\ UNCHANGED <<callVars, outer, rx, last, calls, overflowChecks, mem,
                   halted, dumpPtr, devLoad, mode, lasm, loader, uiVars>>

\* the device after the keys of go64: in compat mode when the last commands
\* it received are those of "go64", Return, "y", Return and the release
DevTyped(w) ==
    IF /\ Len(w) > Len(GoText)
       /\ SubSeq(w, Len(w) - Len(GoText), Len(w))
             = KeyCmds(GoText) \o <<StopTypingCmd>>
    THEN "compat" ELSE mode

\* type_text: stop_typing(port)?; Ok(())
StopTyping ==
    /\ outer.state = "running"
    /\ outer.stage = "typing"
    /\ keyIdx = Len(Normalize(outer.text))
    /\ \E sent \in BOOLEAN :
        /\ wire' = IF sent THEN Append(wire, StopTypingCmd) ELSE wire
        /\ mode' = IF sent THEN DevTyped(Append(wire, StopTypingCmd)) ELSE mode
        /\ IF ~sent THEN Finish("err", "transport")
           ELSE IF outer.after = "go_done"
                THEN outer' = [outer EXCEPT !.stage = "go_done"]
                ELSE Finish("ok", "")
    /\ UNCHANGED <<callVars, rx, last, calls, overflowChecks, mem, halted,
                   dumpPtr, devLoad, keyIdx, keyFaults, lasm, loader, uiVars>>

\* the steps of read_memory
ReadMemorySteps ==
    \/ FlushMonitorWrite
    \/ FlushMonitorRead
    \/ RM_StopCpu
    \/ RM_DumpStart
    \/ RM_SkipHeader
    \/ RM_ReadChunk
    \/ RM_DumpContinue
    \/ RM_SkipNextHeader
    \/ RM_StartCpu

\* the steps of write_memory
WriteMemorySteps ==
    \/ WM_StopCpu
    \/ WM_LoadRange
    \/ WM_Payload
    \/ WM_StartCpu

CommandInit ==
    /\ Quiet
    /\ mode \in {"native", "compat"}
    /\ Fresh
    /\ lasm = NoLoadAddress

CommandNext ==
    \/ CallPoke
    \/ PokeValidate
    \/ CallHandlePrg
    \/ HP_Reset
    \/ HP_Dispatch
    \/ CallGo64
    \/ CallGo65
    \/ CallIsC65Mode
    \/ CallDefaultIsC65Mode
    \/ ReadMemorySteps
    \/ AfterProbe
    \/ GoReset
    \/ GoReturn
    \/ HP_Write
    \/ WriteMemorySteps
    \/ AfterWrite
    \/ TypeKey
    \/ StopTyping

CommandSpec == CommandInit /\ [][CommandNext]_vars

----------------------------------------------------------------------------
(* type_text on its own: the `type` command, src/src/main.rs *)

\* the characters of the longer texts: backslash, r, n, a
TextAlphabet == {92, 114, 110, 97}

\* the texts typed: every code point up to MaxChar and U+1F642 alone, and
\* every text over TextAlphabet of at most MaxText characters
Texts ==
    {<<c>> : c \in 0..MaxChar \cup {128578}}
        \cup UNION {[1..k -> TextAlphabet] : k \in 0..MaxText}

\* serial::type_text(&mut port, text.as_str())
CallTypeText ==
    \E text \in Texts :
        BeginCommand([NoOuter EXCEPT !.name = "type_text", !.stage = "typing",
                                     !.text = text, !.after = "return"],
                     NoOp, "idle")

TypingNext ==
    \/ CallTypeText
    \/ TypeKey
    \/ StopTyping

TypingSpec == CommandInit /\ [][TypingNext]_vars

----------------------------------------------------------------------------
(* The loader: load_prg and the disk images, src/src/lib/io.rs *)

\* the files given to handle_prg: "a.prg", "A.PrG", "a", ".prg", "a.d64",
\* "a.D81", "a.txt", "a.", "d.x/a", ".."
Files ==
    {<<97, 46, 112, 114, 103>>, <<65, 46, 80, 114, 71>>, <<97>>,
     <<46, 112, 114, 103>>, <<97, 46, 100, 54, 52>>, <<97, 46, 68, 56, 49>>,
     <<97, 46, 116, 120, 116>>, <<97, 46>>, <<100, 46, 120, 47, 97>>,
     <<46, 46>>}

\* what a file may hold: nothing, one byte, a load address alone, programs
\* for the C64, the C65, the C128 and a custom address, and files of
\* MaxFileBytes - 1 and MaxFileBytes bytes
Contents ==
    {<<>>, <<1>>, <<1, 8>>, <<1, 8, 170, 187>>, <<1, 32>> \o Payload(17, 170),
     <<1, 28, 0>>, <<0, 192, 1>>, [i \in 1..(MaxFileBytes - 1) |-> 0],
     [i \in 1..MaxFileBytes |-> 0]}

\* the directories of the disk images: each entry has a file type and the
\* bytes of the file
Dirs ==
    {<<>>,
     <<[type |-> "SEQ", bytes |-> <<0, 192, 9>>],
       [type |-> "PRG", bytes |-> <<1, 8, 170, 187>>],
       [type |-> "PRG", bytes |-> <<1>>]>>,
     <<[type |-> "PRG", bytes |-> <<1, 32, 5>>],
       [type |-> "DEL", bytes |-> <<>>],
       [type |-> "PRG", bytes |-> <<1, 8, 7>>]>>}

\* the last position of c in s, 0 when there is none
LastIndexOf(s, c) ==
    IF \E i \in 1..Len(s) : s[i] = c
    THEN CHOOSE i \in 1..Len(s) :
            s[i] = c /\ \A j \in (i + 1)..Len(s) : s[j] # c
    ELSE 0

\* Path::file_name: the last component of the path, none for ".."
FileName(path) ==
    LET name == SubSeq(path, LastIndexOf(path, 47) + 1, Len(path))
    IN  IF name = <<46, 46>> THEN <<>> ELSE name

\* Path::extension: <<>> for None, <<e>> for Some(e).  The part of the file
\* name after its last dot; none without a dot or when the only dot is the
\* first character.
Extension(path) ==
    LET name == FileName(path)
        dot == LastIndexOf(name, 46)
    IN  IF dot <= 1 THEN <<>>
        ELSE <<SubSeq(name, dot + 1, Len(name))>>

\* an extension compared as it is written
ToAsciiLowercase_None(s) == s

\* OsStr::to_ascii_lowercase
ToAsciiLowercase(s) ==
    [i \in 1..Len(s) |-> IF s[i] \in 65..90 THEN s[i] + 32 ELSE s[i]]

\* load_prg: match Path::new(&file).extension() { None => direct,
\* Some("prg") => direct, Some("d81") | Some("d64") => disk, _ => Err }
LoadRoute(file) ==
    LET ext == Extension(file)
    IN  IF ext = <<>> THEN "direct"
        ELSE LET e == ToAsciiLowercase(ext[1])
             IN  CASE e = <<112, 114, 103>> -> "direct"
                   [] e = <<100, 56, 49>> -> "disk"
                   [] e = <<100, 54, 52>> -> "disk"
                   [] OTHER -> "invalid"

\* dir.iter().filter(|entry| file_type == PRG): the positions of the PRG
\* entries, in order
RECURSIVE PrgFiles(_, _)
PrgFiles(dir, from) ==
    IF from > Len(dir) THEN <<>>
    ELSE IF dir[from].type = "PRG" THEN <<from>> \o PrgFiles(dir, from + 1)
    ELSE PrgFiles(dir, from + 1)

\* the loader is at the step `at` of a running command
Loading(at) ==
    /\ outer.state = "running"
    /\ outer.stage = "loading"
    /\ loader.pc = at

\* the loader returns Err(error)
LoadErr(error) == loader' = [loader EXCEPT !.pc = "err", !.error = error]

\* what a loader step leaves alone
LoaderFrame ==
    UNCHANGED <<callVars, outer, wire, rx, last, calls, overflowChecks, mem,
                halted, dumpPtr, devLoad, mode, keyIdx, keyFaults, lasm,
                uiVars>>

\* handle_prg(port, file, reset_before_run, run)
CallHandlePrgFile ==
    \E file \in Files, reset \in BOOLEAN, run \in BOOLEAN :
        /\ loader.pc = "idle"
        /\ StartCommand([NoOuter EXCEPT !.name = "handle_prg",
                                        !.stage = "loading",
                                        !.reset = reset, !.run = run],
                        NoOp, "idle")
        /\ loader' = [NoLoader EXCEPT !.pc = "load_prg", !.via = "cli",
                                      !.file = file]

\* App::activate_cbm_browser: cbm_open(&url)?, directory()?, every entry is
\* put in the list of the browser
ActivateCbmBrowser ==
    /\ outer.state = "none"
    /\ loader.pc = "idle"
    /\ \E dir \in Dirs :
        loader' = [NoLoader EXCEPT !.pc = "browser", !.via = "tui",
                                   !.dir = dir,
                                   !.listed = [i \in 1..Len(dir) |-> i]]
    /\ UNCHANGED <<callVars, outer, wire, rx, last, calls, overflowChecks,
                   mem, halted, dumpPtr, devLoad, mode, keyIdx, keyFaults,
                   lasm, uiVars>>

\* FilesApp::run on a selected entry of the browser: cbm_load_file(disk,
\* selected_file)?, handle_prg_from_bytes(port, &bytes, load_address,
\* reset_before_run, true)?
CallRunSelection ==
    \E index \in 0..MaxIndex, reset \in BOOLEAN :
        /\ loader.pc = "browser"
        /\ StartCommand([NoOuter EXCEPT !.name = "run_selection",
                                        !.stage = "loading",
                                        !.reset = reset, !.run = TRUE],
                        NoOp, "idle")
        /\ loader' = [loader EXCEPT !.pc = "cbm_load_file", !.index = index]

\* load_prg: the match on the extension
LoadPrg ==
    /\ Loading("load_prg")
    /\ LET route == LoadRoute(loader.file)
       IN  loader' = [loader EXCEPT
                         !.route = route,
                         !.pc = CASE route = "direct" -> "load_bytes"
                                  [] route = "disk" -> "cbm_open"
                                  [] OTHER -> "err",
                         !.error = IF route = "invalid"
                                   THEN "invalid file extension" ELSE ""]
    /\ LoaderFrame

\* load_bytes: File::open(&filename)?.read_to_end(&mut bytes)?;
\* assert!(bytes.len() < 0xffff); Ok(bytes)
LoadBytes ==
    /\ Loading("load_bytes")
    /\ \/ LoadErr("io")
       \/ \E content \in Contents :
            loader' = [loader EXCEPT
                          !.pc = IF Len(content) < MaxFileBytes THEN "purge"
                                 ELSE "abort",
                          !.content = content,
                          !.bytes = content]
    /\ LoaderFrame

\* purge_load_address: u16::from_le_bytes(bytes[0..2]), *bytes = bytes[2..],
\* LoadAddress::new(address); the slice panics on fewer than two bytes
PurgeLoadAddress ==
    /\ Loading("purge")
    /\ IF Len(loader.bytes) < 2
       THEN loader' = [loader EXCEPT !.pc = "abort"]
       ELSE loader' = [loader EXCEPT
                          !.pc = "ok",
                          !.la = LoadAddressNew(loader.bytes[1]
                                                  + 256 * loader.bytes[2]),
                          !.bytes = SubSeq(loader.bytes, 3,
                                           Len(loader.bytes))]
    /\ LoaderFrame

\* cbm_select_and_load: cbm_open(diskimage)?, disk.directory()?, the PRG
\* entries are printed with a counter from 0
CbmOpen ==
    /\ Loading("cbm_open")
    /\ \/ LoadErr("io")
       \/ \E dir \in Dirs :
            loader' = [loader EXCEPT !.pc = "select", !.dir = dir,
                                     !.listed = PrgFiles(dir, 1)]
    /\ LoaderFrame

\* cbm_select_and_load: read_line(&mut selection)?,
\* selection.trim_end().parse::<usize>()?, prg_files.nth(index) or
\* "invalid selection".  The user enters a number, or (-1) something that is
\* not one.
CbmSelect ==
    /\ Loading("select")
    /\ \/ LoadErr("io")
       \/ \E selection \in (0..MaxIndex) \cup {-1} :
            IF selection < 0 THEN LoadErr("parse")
            ELSE IF selection >= Len(PrgFiles(loader.dir, 1))
            THEN loader' = [loader EXCEPT !.pc = "err",
                                          !.index = selection,
                                          !.error = "invalid selection"]
            ELSE loader' = [loader EXCEPT
                               !.pc = "read",
                               !.index = selection,
                               !.entry =
                                   PrgFiles(loader.dir, 1)[selection + 1]]
    /\ LoaderFrame

\* cbm_load_file: disk.directory()?, dir.get(index) or "invalid selection"
CbmLoadFile ==
    /\ Loading("cbm_load_file")
    /\ \/ LoadErr("io")
       \/ IF loader.index >= Len(loader.dir)
          THEN LoadErr("invalid selection")
          ELSE loader' = [loader EXCEPT !.pc = "read",
                                        !.entry = loader.index + 1]
    /\ LoaderFrame

\* disk.open_file(&entry.filename)?.reader()?.read_to_end(&mut bytes)?
CbmRead ==
    /\ Loading("read")
    /\ \/ LoadErr("io")
       \/ loader' = [loader EXCEPT
                        !.pc = "purge",
                        !.content = loader.dir[loader.entry].bytes,
                        !.bytes = loader.dir[loader.entry].bytes]
    /\ LoaderFrame

\* let (load_address, bytes) = io::load_prg(file)?;
\* handle_prg_from_bytes(port, &bytes, load_address, reset_before_run, run)
LoaderReturn ==
    /\ outer.state = "running"
    /\ outer.stage = "loading"
    /\ loader.pc \in {"ok", "err", "abort"}
    /\ CASE loader.pc = "ok" ->
                outer' = [outer EXCEPT !.name = "handle_prg_from_bytes",
                                       !.stage = IF outer.reset THEN "reset"
                                                 ELSE "dispatch",
                                       !.la = loader.la,
                                       !.payload = loader.bytes]
         [] loader.pc = "err" -> Finish("err", loader.error)
         [] OTHER -> Finish("abort", "panic")
    /\ UNCHANGED <<callVars, wire, rx, last, calls, overflowChecks, mem,
                   halted, dumpPtr, devLoad, mode, keyIdx, keyFaults, lasm,
                   loader, uiVars>>

LoaderNext ==
    \/ CallHandlePrgFile
    \/ ActivateCbmBrowser
    \/ CallRunSelection
    \/ LoadPrg
    \/ LoadBytes
    \/ PurgeLoadAddress
    \/ CbmOpen
    \/ CbmSelect
    \/ CbmLoadFile
    \/ CbmRead
    \/ LoaderReturn
    \/ HP_Reset
    \/ HP_Dispatch
    \/ ReadMemorySteps
    \/ AfterProbe
    \/ GoReset
    \/ HP_Write
    \/ WriteMemorySteps
    \/ AfterWrite
    \/ TypeKey
    \/ StopTyping

LoaderSpec == CommandInit /\ [][LoaderNext]_vars

----------------------------------------------------------------------------
(* peek: `peek` and `dasm`, src/src/commands.rs and src/src/repl.rs *)

\* peek(port, address, length, ..): parse::<u32>(&address)?,
\* serial::read_memory(port, start_address, length)?.  The addresses are
\* 0x0801, 0xfffffff, 0x10000000 and 0x7fffffff, the largest integer of the
\* model checker; the u32 values above it have 8 digits as well.
CallPeek ==
    \E a \in {2049, AddrSpace - 1, AddrSpace, 2147483647}, n \in {0, 1, 17} :
        Begin([name |-> "read_memory", address |-> a, length |-> n,
               payload |-> <<>>], "rm_flush")

\* the device sends a byte nobody asked for while flush_monitor reads
DevStray ==
    /\ pc = "rm_drain"
    /\ stray < MaxStray
    /\ stray' = stray + 1
    /\ rx' = Append(rx, 63)
    /\ UNCHANGED <<pc, op, wire, bytes, result, chunkReads, chunks, short,
                   badHex, last, calls, overflowChecks, mem, halted, dumpPtr,
                   devLoad, mode, outer, keyIdx, keyFaults, lasm, loader, app,
                   stopped>>

PeekNext ==
    \/ CallPeek
    \/ DevStray
    \/ ReadMemorySteps

PeekSpec == Init /\ [][PeekNext]_vars

\* the program runs on: a step of read_memory that can be taken is taken
PeekLive == PeekSpec /\ WF_vars(ReadMemorySteps)

----------------------------------------------------------------------------
(* The shell: stop, start, dasm, go64, src/src/repl.rs *)

\* stop: serial::stop_cpu(context.port)
CallStop ==
    /\ pc \in {"idle", "done"}
    /\ outer.state # "running"
    /\ \E outcome \in WriteOutcomes :
        /\ wire' = IF Sent(outcome) THEN <<CmdHalt>> ELSE <<>>
        /\ halted' = IF Sent(outcome) THEN TRUE ELSE halted
        /\ stopped' = (stopped \/ outcome = "ok")
    /\ UNCHANGED <<callVars, rx, last, calls, overflowChecks, mem, dumpPtr,
                   devLoad, mode, outer, keyIdx, keyFaults, lasm, loader, app,
                   stray>>

\* start: serial::start_cpu(context.port)
CallStart ==
    /\ pc \in {"idle", "done"}
    /\ outer.state # "running"
    /\ \E outcome \in WriteOutcomes :
        /\ wire' = IF Sent(outcome) THEN <<CmdResume>> ELSE <<>>
        /\ halted' = IF Sent(outcome) THEN FALSE ELSE halted
    /\ stopped' = FALSE
    /\ UNCHANGED <<callVars, rx, last, calls, overflowChecks, mem, dumpPtr,
                   devLoad, mode, outer, keyIdx, keyFaults, lasm, loader, app,
                   stray>>

\* the commands of the shell that reach the port, filehost and reset apart
ShellNext ==
    \/ CallStop
    \/ CallStart
    \/ CallPeek
    \/ ReadMemorySteps
    \/ CallGo64
    \/ AfterProbe
    \/ TypeKey
    \/ StopTyping
    \/ GoReturn

ShellSpec == CommandInit /\ [][ShellNext]_vars

----------------------------------------------------------------------------
(* The TUI: App, FilesApp, StatefulList, run_app, src/src/textui *)

\* the lists of records given to start_tui, sorted by title as
\* commands::filehost leaves them: none, two disk images (the first with an
\* empty directory), a program and a disk image.  A record has its title,
\* its date, the extension of its location and the number of entries in the
\* directory of its disk image.
ItemLists ==
    {<<>>,
     <<[title |-> 1, published |-> 1, ext |-> "d81", entries |-> 0],
       [title |-> 2, published |-> 2, ext |-> "d81", entries |-> 2]>>,
     <<[title |-> 1, published |-> 1, ext |-> "prg", entries |-> 0],
       [title |-> 2, published |-> 2, ext |-> "d81", entries |-> 2]>>}

\* App::new: the entries of file_action
FileActions == <<"Run", "Reset and Run", "Open CBM disk...", "Cancel">>

\* usize::MAX, what 0usize - 1 gives in a build without overflow checks; the
\* largest number the model has
UsizeMax == 2147483647

\* StatefulList::next, StatefulTable::next, FilesApp::next; len() - 1 of an
\* empty list is usize::MAX where it does not panic
SelectNext(sel, n) ==
    IF sel = -1 THEN 0
    ELSE IF sel >= (IF n = 0 THEN UsizeMax ELSE n - 1) THEN 0
    ELSE sel + 1

\* StatefulList::previous, StatefulTable::previous, FilesApp::previous
SelectPrevious(sel, n) ==
    IF sel = -1 THEN 0
    ELSE IF sel = 0 THEN (IF n = 0 THEN UsizeMax ELSE n - 1)
    ELSE sel - 1

\* FilesApp::sort_filehost: by title, or by date with the newest first;
\* sort_by_key is a stable sort
SortFilehost(a) ==
    LET SortByKey(s, k) ==
            LET n == Len(s)
                p == CHOOSE q \in [1..n -> 1..n] :
                        \A i, j \in 1..n :
                            i < j => \/ s[q[i]][k] < s[q[j]][k]
                                     \/ /\ s[q[i]][k] = s[q[j]][k]
                                        /\ q[i] < q[j]
            IN  [i \in 1..n |-> s[p[i]]]
        byDate == SortByKey(a.items, "published")
    IN  [a EXCEPT !.items = IF a.toggle_sort
                            THEN [i \in 1..Len(byDate) |->
                                     byDate[Len(byDate) + 1 - i]]
                            ELSE SortByKey(a.items, "title"),
                  !.toggle_sort = ~a.toggle_sort]

\* FilesApp::selected_url: the item at selected().unwrap_or(0)
SelectedItem(a) == a.items[(IF a.table = -1 THEN 0 ELSE a.table) + 1]

\* ui: FilesApp::make_widget indexes the items at selected().unwrap_or(0)
\* and panics when there is no such item
Draw(a) ==
    IF a.loop = "running"
       /\ (IF a.table = -1 THEN 0 ELSE a.table) >= Len(a.items)
    THEN [a EXCEPT !.loop = "abort", !.panic = "draw"]
    ELSE a

\* run_app: match app.keypress(key.code) { Ok(()) => {}, Err(error) => {
\* add_message(error), cbm_browser.unselect(), current_widget = FileSelector
\* } } for the result r of the fallible call in keypress; `rest` is the App
\* when keypress goes on after an Ok.  A panic ends the process where it
\* happens.
Handled(r, rest) ==
    IF r.a.loop = "abort" THEN r.a
    ELSE IF r.err # ""
    THEN [r.a EXCEPT !.messages = Append(@, r.err), !.browser = -1,
                     !.widget = "FileSelector", !.fault = r.fault]
    ELSE rest

\* FilesApp::run: the results it can have, [a |-> the App after it, err |->
\* the error returned or "", fault |-> the device operation that failed].
\* What handle_prg and handle_prg_from_bytes do on the port is in LoaderSpec;
\* here they return Ok, return an error or panic (C30, C7).
Run(a, reset) ==
    LET item == SelectedItem(a)
        what == IF reset THEN "reset-and-run" ELSE "run"
    IN  IF item.ext = "prg"
        THEN {[a |-> a, err |-> "", fault |-> ""],
              [a |-> a, err |-> "error", fault |-> what],
              [a |-> [a EXCEPT !.loop = "abort", !.panic = "device"],
               err |-> "", fault |-> ""]}
        ELSE IF item.ext = "d81" /\ a.disk # 0 /\ a.browser # -1
        THEN LET from == [a EXCEPT !.ran = [item |-> item.title,
                                            disk |-> a.disk]]
                 size == (CHOOSE r \in {a.items[i] : i \in 1..Len(a.items)} :
                             r.title = a.disk).entries
             IN  IF a.browser >= size
                 THEN {[a |-> a, err |-> "invalid selection",
                        fault |-> "run disk entry"]}
                 ELSE {[a |-> [from EXCEPT !.browser = -1, !.disk = 0],
                        err |-> "", fault |-> ""],
                       [a |-> from, err |-> "error",
                        fault |-> "run disk entry"],
                       [a |-> [from EXCEPT !.loop = "abort",
                                           !.panic = "device"],
                        err |-> "", fault |-> ""]}
        ELSE {[a |-> a, err |-> "Cannot run selection", fault |-> ""]}

\* App::activate_cbm_browser: the widget is set before cbm_open(&url)?; a
\* failed cbm_open leaves cbm_disk as it was, a failed directory() leaves the
\* items of the browser as they were; the selection of the browser is kept
ActivateBrowser(a) ==
    LET item == SelectedItem(a)
        shown == [a EXCEPT !.busy = FALSE, !.widget = "CBMBrowser"]
        opened == [shown EXCEPT !.disk = item.title]
    IN  {[a |-> shown, err |-> "error", fault |-> "open disk image"],
         [a |-> opened, err |-> "error", fault |-> "open disk image"],
         [a |-> [opened EXCEPT !.entries = item.entries], err |-> "",
          fault |-> ""]}

\* the selection of file_action left as it is
SelectFirst_Keep(action) == action

\* Enter in FileSelector: if !file_action.is_selected() { select(Some(0)) }
SelectFirst(action) == IF action = -1 THEN 0 ELSE action

\* start_tui: App::new, then the first draw of run_app
StartTui ==
    /\ app.loop = "off"
    /\ \E items \in ItemLists :
        app' = Draw([NoApp EXCEPT !.loop = "running", !.items = items,
                                  !.messages = <<"welcome", "help">>])
    /\ UNCHANGED <<wire, mode, halted, overflowChecks, callVars, rx, last,
                   calls, mem, dumpPtr, devLoad, outer, keyIdx, keyFaults,
                   lasm, loader, stopped, stray>>

\* 'q': return Ok(())
KeyQuit ==
    /\ app.loop = "running"
    /\ app' = [app EXCEPT !.fault = "", !.loop = "quit"]
    /\ UNCHANGED <<wire, mode, halted, overflowChecks, callVars, rx, last,
                   calls, mem, dumpPtr, devLoad, outer, keyIdx, keyFaults,
                   lasm, loader, stopped, stray>>

\* 'R': crate::serial::reset(&mut app.files.port)?; add_message("Reset
\* MEGA65"); then app.keypress, which does nothing on 'R'
KeyReset ==
    /\ app.loop = "running"
    /\ Len(app.messages) < MaxMessages
    /\ \E sent \in BOOLEAN :
        /\ wire' = IF sent THEN <<CmdReset>> ELSE <<>>
        /\ DevReset(sent)
        /\ app' = IF sent
                  THEN Draw([app EXCEPT !.fault = "",
                                !.messages = Append(@, "Reset MEGA65")])
                  ELSE [app EXCEPT !.loop = "exit", !.fault = "reset"]
    /\ UNCHANGED <<overflowChecks, callVars, rx, last, calls, mem, dumpPtr,
                   devLoad, outer, keyIdx, keyFaults, lasm, loader, stopped,
                   stray>>

\* 'h': the help is shown or left
KeyHelp ==
    /\ app.loop = "running"
    /\ app' = Draw([app EXCEPT !.fault = "",
                       !.widget = IF @ # "Help" THEN "Help"
                                  ELSE "FileSelector"])
    /\ UNCHANGED <<wire, mode, halted, overflowChecks, callVars, rx, last,
                   calls, mem, dumpPtr, devLoad, outer, keyIdx, keyFaults,
                   lasm, loader, stopped, stray>>

\* Esc: back to the file selector, file_action.unselect()
KeyEsc ==
    /\ app.loop = "running"
    /\ app' = Draw([app EXCEPT !.fault = "", !.widget = "FileSelector",
                                        !.action = -1])
    /\ UNCHANGED <<wire, mode, halted, overflowChecks, callVars, rx, last,
                   calls, mem, dumpPtr, devLoad, outer, keyIdx, keyFaults,
                   lasm, loader, stopped, stray>>

\* 's': sort_filehost when the file selector is active
KeySort ==
    /\ app.loop = "running"
    /\ app' = Draw(IF app.widget = "FileSelector"
                   THEN SortFilehost([app EXCEPT !.fault = ""])
                   ELSE [app EXCEPT !.fault = ""])
    /\ UNCHANGED <<wire, mode, halted, overflowChecks, callVars, rx, last,
                   calls, mem, dumpPtr, devLoad, outer, keyIdx, keyFaults,
                   lasm, loader, stopped, stray>>

\* Up, Down: previous, next of the list of the active widget, none in the
\* help.  On an empty list len() - 1 panics in a build with overflow checks
\* and wraps in one without.
KeyArrow ==
    /\ app.loop = "running"
    /\ app.widget # "Help"
    /\ \E key \in {"Up", "Down"} :
        LET sel == CASE app.widget = "CBMBrowser" -> app.browser
                     [] app.widget = "FileAction" -> app.action
                     [] OTHER -> app.table
            n == CASE app.widget = "CBMBrowser" -> app.entries
                   [] app.widget = "FileAction" -> Len(FileActions)
                   [] OTHER -> Len(app.items)
            to == IF key = "Down" THEN SelectNext(sel, n)
                  ELSE SelectPrevious(sel, n)
            under == n = 0 /\ IF key = "Down" THEN sel # -1 ELSE sel = 0
            moved == CASE app.widget = "CBMBrowser" ->
                            [app EXCEPT !.fault = "", !.browser = to]
                       [] app.widget = "FileAction" ->
                            [app EXCEPT !.fault = "", !.action = to]
                       [] OTHER -> [app EXCEPT !.fault = "", !.table = to]
        IN  /\ to \in (0..MaxIndex) \cup {UsizeMax}
            /\ \/ /\ under
                  /\ overflowChecks \in {"unset", "panic"}
                  /\ overflowChecks' = "panic"
                  /\ app' = [app EXCEPT !.fault = "", !.loop = "abort",
                                        !.panic = "list"]
               \/ /\ under =>
                        overflowChecks \in {"unset", "wrap"}
                  /\ overflowChecks' = IF under THEN "wrap"
                                       ELSE overflowChecks
                  /\ app' = Draw(moved)
    /\ UNCHANGED <<wire, mode, halted, callVars, rx, last, calls, mem,
                   dumpPtr, devLoad, outer, keyIdx, keyFaults, lasm, loader,
                   stopped, stray>>

\* Enter: run_app sets busy, then App::keypress acts on the active widget; an
\* error is handled by run_app
KeyEnter ==
    /\ app.loop = "running"
    /\ Len(app.messages) < MaxMessages
    /\ LET a == [app EXCEPT !.fault = "", !.busy = (app.browser # -1)]
           back == [a EXCEPT !.widget = "FileSelector"]
       IN  CASE app.widget = "FileSelector" ->
                    app' = Draw([a EXCEPT !.widget = "FileAction",
                                          !.action = SelectFirst(@)])
             [] app.widget = "FileAction" ->
                    \E r \in CASE app.action = 0 -> Run(back, FALSE)
                               [] app.action = 1 -> Run(back, TRUE)
                               [] app.action = 2 -> ActivateBrowser(back)
                               [] OTHER -> {[a |-> back, err |-> "",
                                             fault |-> ""]} :
                        app' = Draw(Handled(r, [r.a EXCEPT !.action = -1]))
             [] app.widget = "Help" -> app' = Draw(a)
             [] OTHER ->
                    \E r \in Run(a, FALSE) :
                        app' = Draw(Handled(r, [r.a EXCEPT
                                                   !.busy = FALSE,
                                                   !.widget = "FileSelector",
                                                   !.action = -1]))
    /\ UNCHANGED <<wire, mode, halted, overflowChecks, callVars, rx, last,
                   calls, mem, dumpPtr, devLoad, outer, keyIdx, keyFaults,
                   lasm, loader, stopped, stray>>

TuiNext ==
    \/ StartTui
    \/ KeyQuit
    \/ KeyReset
    \/ KeyHelp
    \/ KeyEsc
    \/ KeySort
    \/ KeyArrow
    \/ KeyEnter

TuiSpec == Init /\ [][TuiNext]_vars

----------------------------------------------------------------------------
(* Properties *)

\* the call `name` has returned
Returned(name) == pc = "done" /\ op.name = name

\* the call `name` has returned Ok
Succeeded(name) == Returned(name) /\ result.state = "ok"

\* number of 16 byte chunks that cover n bytes
ChunksFor(n) == (n + ChunkBytes - 1) \div ChunkBytes

\* number of times the byte string x was written
Count(w, x) == Cardinality({i \in DOMAIN w : w[i] = x})

\* the n bytes of device memory from address a
DeviceBlock(a, n) == [i \in 1..n |-> DevPeek((a + i - 1) % AddrSpace)]

\* C1: a successful read_memory of L >= 1 bytes returns exactly L bytes, the
\* first L bytes of the decoded chunks it read (which are the device's memory
\* from the address on); what the last chunk holds beyond L is not returned.
C1_ExactLength ==
    (Succeeded("read_memory") /\ op.length >= 1) =>
        /\ Len(result.bytes) = op.length
        /\ result.bytes = SubSeq(FromHex(chunks), 1, op.length)
        /\ result.bytes = DeviceBlock(op.address, op.length)

\* a read of two chunks whose second chunk is cut
C1_Witness ==
    /\ Succeeded("read_memory")
    /\ op.length > ChunkBytes
    /\ op.length < 2 * ChunkBytes
    /\ Len(chunks) = 4 * ChunkBytes
    /\ Len(result.bytes) = op.length

\* C2: when a frame read of read_memory (27 byte header, 18 byte header or 32
\* chunk characters) finds fewer bytes than it asks for, read_memory returns an
\* error and no block.
C2_ShortReadFails ==
    (op.name = "read_memory" /\ short) =>
        (pc = "done" /\ result.state = "err" /\ result.bytes = <<>>)

\* a chunk that arrived short
C2_Witness ==
    /\ Returned("read_memory")
    /\ short
    /\ chunkReads >= 1
    /\ result.state = "err"

\* C3: a successful read_memory of L >= 1 bytes performs ceil(L/16) chunk
\* reads; a 20 byte request performs 2 and returns 20 bytes.
C3_ChunkReads ==
    (Succeeded("read_memory") /\ op.length >= 1) =>
        /\ chunkReads = ChunksFor(op.length)
        /\ op.length = 20 => (chunkReads = 2 /\ Len(result.bytes) = 20)

\* the 20 byte request
C3_Witness ==
    /\ Succeeded("read_memory")
    /\ op.length = 20
    /\ chunkReads = 2
    /\ Len(result.bytes) = 20

\* C4: a successful read_memory of L >= 1 bytes sends ceil(L/16) - 1
\* dump-continue commands, none after the chunk that completes the request.
C4_ContinueOnlyWhenNeeded ==
    (Succeeded("read_memory") /\ op.length >= 1) =>
        Count(wire, CmdContinue) = ChunksFor(op.length) - 1

\* C5 as stated: a successful read_memory of length 0 reads exactly one chunk
\* and returns the empty block.
C5_OneChunkForZero ==
    (Succeeded("read_memory") /\ op.length = 0) =>
        (chunkReads = 1 /\ result.bytes = <<>>)

\* C5 amended: a successful read_memory of length 0 reads no chunk and sends no
\* dump-continue; it reads the 27 byte header only and returns the empty block.
C5_NoChunkForZero ==
    (Succeeded("read_memory") /\ op.length = 0) =>
        /\ chunkReads = 0
        /\ Count(wire, CmdContinue) = 0
        /\ result.bytes = <<>>

\* a read of length 0 that succeeded
C5_Witness ==
    /\ Succeeded("read_memory")
    /\ op.length = 0
    /\ Count(wire, DumpStartCmd(op.address)) = 1

\* C6: when a chunk of 32 characters that read_memory received is not valid
\* hexadecimal, read_memory returns an error: no block, and no abort.
C6_InvalidHexFails ==
    (op.name = "read_memory" /\ badHex) =>
        (pc = "done" /\ result.state = "err" /\ result.bytes = <<>>)

\* a chunk with a character that is no hex digit
C6_Witness ==
    /\ Returned("read_memory")
    /\ badHex
    /\ ~short
    /\ result.state = "err"

\* the range [a, a + n) lies in the 16 bit domain
InDomain(a, n) == n = 0 \/ a + n - 1 < U16

\* C7: write_memory(A, B), for a range within the 16 bit domain, returns, and
\* a read_memory(A, len(B)) that follows it returns exactly B.
C7_RoundTrip ==
    /\ (op.name = "write_memory" /\ InDomain(op.address, op.length)) =>
            pc # "abort"
    /\ (/\ Succeeded("read_memory")
        /\ last.name = "write_memory"
        /\ last.state = "ok"
        /\ InDomain(op.address, op.length)) =>
            result.bytes = last.payload

\* C8: a successful write_memory has written, in this order and nothing else,
\* t1, the write-range command with start and start + len in hex, the payload,
\* t0.
C8_WriteWire ==
    Succeeded("write_memory") =>
        wire = << CmdHalt,
                  <<108>> \o HexDigits(op.address) \o <<32>>
                          \o HexDigits(op.address + Len(op.payload)) \o <<13>>,
                  op.payload,
                  CmdResume >>

\* C9: every successful read, read_memory and load_memory alike, has sent the
\* halt before the dump-start and the resume as its last command, and leaves
\* the CPU running.
C9_ReadResumes ==
    \A name \in {"read_memory", "load_memory"} :
        Succeeded(name) =>
            /\ \E i, j \in DOMAIN wire :
                /\ i < j
                /\ wire[i] = CmdHalt
                /\ wire[j] = DumpStartCmd(op.address)
            /\ wire[Len(wire)] = CmdResume
            /\ ~halted

\* C10: whenever read_memory or write_memory returns after it has sent the
\* halt, it has sent the resume after it.
C10_BracketReleased ==
    \A name \in {"read_memory", "write_memory"} :
        Returned(name) =>
            \A i \in DOMAIN wire :
                wire[i] = CmdHalt =>
                    \E j \in DOMAIN wire : j > i /\ wire[j] = CmdResume

\* C19: value(new(a)) = a for every 16 bit value a.
C19_RoundTrip ==
    lasm.pc = "value" => lasm.v = lasm.a

\* the round trip of a table value and of another value
C19_Witness ==
    /\ lasm.pc = "value"
    /\ lasm.a = 7169
    /\ lasm.la.tag = "Commodore128"
    /\ lasm.v = 7169

\* the table of LoadAddress::new, written out
TableTag(a) ==
    CASE a = 1025 -> "PET"
      [] a = 2049 -> "Commodore64"
      [] a = 4097 -> "Commodore16"
      [] a = 7169 -> "Commodore128"
      [] a = 8193 -> "Commodore65"
      [] OTHER -> "Custom"

\* C20: new maps 0x0401 to PET, 0x0801 to Commodore64, 0x1001 to Commodore16,
\* 0x1c01 to Commodore128, 0x2001 to Commodore65 and every other value a to
\* Custom(a); it never gives Custom(a) for a value of the table.
C20_Table ==
    lasm.pc \in {"new", "value"} =>
        /\ lasm.la.tag = TableTag(lasm.a)
        /\ lasm.la.tag = "Custom" =>
              (lasm.la.custom = lasm.a
               /\ lasm.a \notin {1025, 2049, 4097, 7169, 8193})
        /\ lasm.a = 49152 => lasm.la = Custom(49152)

\* 0xc000 has become Custom(0xc000)
C20_Witness ==
    /\ lasm.pc = "new"
    /\ lasm.a = 49152
    /\ lasm.la = Custom(49152)

----------------------------------------------------------------------------
(* Properties of the commands *)

Poke == outer.name = "poke"

HandlePrg == outer.name = "handle_prg_from_bytes"

\* the command has got past its validation
Validated == outer.stage # "validate"

\* write_memory has been called by the running command
WriteCalled == op.name = "write_memory"

\* a keystroke or release command
Keyish(e) ==
    /\ Len(e) > 8
    /\ SubSeq(e, 1, 8) = <<115, 102, 102, 100, 51, 54, 49, 53>>

\* the keystroke commands on the wire, the release not counted
KeyCount(w) ==
    Cardinality({i \in DOMAIN w : Keyish(w[i]) /\ w[i] # StopTypingCmd})

\* a write-range command
IsLoadRange(e) == Len(e) > 0 /\ e[1] = 108

\* C11: a poke at 0xFFFF with a non-empty payload is rejected by validation
\* before any byte is written to the transport.
C11_RejectedAtTop ==
    (Poke /\ Validated /\ outer.address = U16 - 1 /\ Len(outer.payload) >= 1)
        => /\ outer.state = "err"
           /\ outer.error = "outside"
           /\ wire = <<>>

C13_EmptyRejected ==
    (Poke /\ Validated /\ Len(outer.payload) = 0)
        => /\ outer.state = "err"
           /\ ~WriteCalled
           /\ wire = <<>>

\* C14: handle_prg_from_bytes with a load address other than Commodore64 and
\* Commodore65 sends no command at all to the device, with and without
\* reset_before_run.
C14_NoInteraction ==
    (HandlePrg /\ outer.la.tag \notin {"Commodore64", "Commodore65"})
        => wire = <<>>

\* C15: Commodore65 goes through go65 and is written at 0x2001, Commodore64
\* goes through go64 and is written at 0x0801; every other LoadAddress ends
\* with the "unsupported load address" error, no write-range command and no
\* keystroke sent.
C15_Dispatch ==
    HandlePrg =>
        /\ (outer.la.tag = "Commodore65" /\ WriteCalled)
              => (outer.go = "go65" /\ op.address = 8193)
        /\ (outer.la.tag = "Commodore64" /\ WriteCalled)
              => (outer.go = "go64" /\ op.address = 2049)
        /\ outer.la.tag \notin {"Commodore64", "Commodore65"}
              => /\ ~WriteCalled
                 /\ \A i \in DOMAIN wire :
                        ~IsLoadRange(wire[i]) /\ ~Keyish(wire[i])
                 /\ outer.state # "running"
                       => (outer.state = "err" /\ outer.error = "unsupported")

\* the wire of a probe
ProbeWire ==
    <<CmdCancel, CmdHalt, DumpStartCmd(ModeAddress), CmdContinue, CmdResume>>

\* the wire of a write
WriteWire(a, b) == <<CmdHalt, LoadRangeCmd(a, b), b, CmdResume>>

RECURSIVE IsSubseq(_, _)
IsSubseq(s, t) ==
    IF s = <<>> THEN TRUE
    ELSE IF t = <<>> THEN FALSE
    ELSE IF s[1] = t[1] THEN IsSubseq(Tail(s), Tail(t))
    ELSE IsSubseq(s, Tail(t))

\* s is the wire of type_text(text): the keystrokes of the text in order,
\* those whose write failed left out, and then the release
Typed(s, text) ==
    /\ s # <<>>
    /\ s[Len(s)] = StopTypingCmd
    /\ IsSubseq(SubSeq(s, 1, Len(s) - 1), KeyCmds(text))

\* the wire of the mode transition after a probe that saw mode `seen`
Transition(s, go, seen) ==
    CASE go = "go65" -> s = IF seen = "native" THEN <<>> ELSE <<CmdReset>>
      [] go = "go64" -> IF seen = "native" THEN Typed(s, GoText) ELSE s = <<>>
      [] OTHER -> FALSE

\* C16: the wire of a successful handle_prg_from_bytes is: the reset iff
\* reset_before_run, the probe, the mode transition if one is needed, the
\* write bracket, and the keystrokes of "run" iff run; every keystroke is on
\* the wire or its write failed.  The keystrokes of "run" are typed only
\* after write_memory has returned Ok, its resume sent.
C16_WireOrder ==
    HandlePrg =>
        /\ outer.state = "ok" =>
            LET r == IF outer.reset THEN 1 ELSE 0
                w == WriteWire(LoadAddressValue(outer.la), outer.payload)
            IN  /\ outer.reset => wire[1] = CmdReset
                /\ SubSeq(wire, r + 1, r + 5) = ProbeWire
                /\ \E i \in (r + 5)..(Len(wire) - 4) :
                    /\ Transition(SubSeq(wire, r + 6, i), outer.go, outer.seen)
                    /\ SubSeq(wire, i + 1, i + 4) = w
                    /\ IF outer.run
                       THEN Typed(SubSeq(wire, i + 5, Len(wire)), RunText)
                       ELSE Len(wire) = i + 4
                /\ KeyCount(wire) + keyFaults =
                      (IF outer.go = "go64" /\ outer.seen = "native"
                       THEN Len(GoText) ELSE 0)
                      + (IF outer.run THEN Len(RunText) ELSE 0)
        /\ outer.text = RunText =>
            /\ outer.run
            /\ WriteCalled
            /\ result.state = "ok"
            /\ \E i \in DOMAIN wire :
                /\ IsLoadRange(wire[i])
                /\ Len(wire) >= i + 2
                /\ wire[i + 2] = CmdResume
                /\ \A k \in (i + 1)..Len(wire) : Keyish(wire[k]) => k > i + 2
        /\ (WriteCalled /\ (pc = "abort" \/ result.state = "err")) =>
            /\ outer.text # RunText
            /\ \A i \in DOMAIN wire : IsLoadRange(wire[i]) =>
                  \A k \in i..Len(wire) : ~Keyish(wire[k])

\* reset, probe, go64 typed in full, write bracket, "run" typed in full
C16_Witness ==
    /\ HandlePrg
    /\ outer.state = "ok"
    /\ outer.reset
    /\ outer.run
    /\ outer.la.tag = "Commodore64"
    /\ outer.payload # <<>>
    /\ Len(wire) = 1 + 5 + (Len(GoText) + 1) + 4 + (Len(RunText) + 1)

\* C17: every go65 and every go64 probes once, in the call itself, and acts
\* on what the device is then: go65 resets iff the device is not in native
\* mode, go64 types its keystrokes iff it is, also when the mode differs from
\* the one the call before saw.
C17_FreshProbe ==
    (/\ outer.go \in {"go64", "go65"}
     /\ outer.stage = "go_done" \/ (outer.name \in ModeCommands
                                     /\ outer.state = "ok"))
        => /\ Count(wire, DumpStartCmd(ModeAddress)) = 1
           /\ outer.native = (outer.seen = "native")
           /\ outer.go = "go65" =>
                /\ Count(wire, CmdReset) =
                      (IF outer.reset THEN 1 ELSE 0)
                      + (IF outer.seen = "native" THEN 0 ELSE 1)
                /\ KeyCount(wire) = 0
                /\ Count(wire, StopTypingCmd) = 0
           /\ outer.go = "go64" =>
                /\ Count(wire, CmdReset) = (IF outer.reset THEN 1 ELSE 0)
                /\ Count(wire, StopTypingCmd) =
                      (IF outer.seen = "native" THEN 1 ELSE 0)
                /\ KeyCount(wire) + keyFaults =
                      (IF outer.seen = "native" THEN Len(GoText) ELSE 0)

\* go64 has left the device in compat mode; the go65 after it sees that and
\* resets
C17_Witness ==
    /\ outer.name = "go65"
    /\ outer.state = "ok"
    /\ calls = 2
    /\ outer.prev = "native"
    /\ outer.seen = "compat"
    /\ Count(wire, CmdReset) = 1
    /\ mode = "native"

\* C18: every probe reads exactly 1 byte at 0xffd3030, answers true iff the
\* byte is 0x64, and returns a boolean or an error: it never panics.
C18_ProbeOneByte ==
    outer.name \in {"is_c65_mode", "default_is_c65_mode"}
        => /\ op.address = ModeAddress
           /\ op.length = 1
           /\ outer.state # "abort"
           /\ outer.state = "ok" => outer.native = (outer.seen = "native")

----------------------------------------------------------------------------
(* Properties of type_text *)

\* type_text has returned Ok and every keystroke write went through
Typed_Ok ==
    /\ outer.name = "type_text"
    /\ outer.state = "ok"
    /\ keyFaults = 0

\* the matrix-code pair a keystroke command carries
Pair(cmd) == <<ParseHex(SubSeq(cmd, 10, 11)), ParseHex(SubSeq(cmd, 13, 14))>>

\* the characters with an arm in type_key: the shifted ones and the keys
MappedChars ==
    {33, 34, 35, 36, 37, 40, 41, 63, 60, 62}
        \cup {3, 12, 13, 17, 19, 20, 29, 32, 42, 43, 44, 45, 46, 47, 48, 49,
              50, 51, 52, 53, 54, 55, 56, 57, 58, 59, 61, 64, 95, 97, 98, 99,
              100, 101, 102, 103, 104, 105, 106, 107, 108, 109, 110, 111, 112,
              113, 114, 115, 116, 117, 118, 119, 120, 121, 122, 125, 145, 157,
              241, 243, 245, 247}

\* C24: type_text("A") and type_text of backslash-r each send a keystroke
\* whose pair is not (0x7f, 0x7f), and the two pairs differ.
C24_DistinctPairs ==
    Typed_Ok =>
        /\ outer.text = <<65>> =>
              /\ Pair(wire[1]) # <<127, 127>>
              /\ Pair(wire[1]) # <<1, 127>>
        /\ outer.text = <<92, 114>> =>
              /\ Len(wire) = 2
              /\ Pair(wire[1]) = <<1, 127>>

\* C25: a character without an entry in the table is sent as the pair
\* (0x7f, 0x7f), never as the key of another character, and type_text
\* succeeds.
C25_UnmappedSentinel ==
    (/\ outer.name = "type_text"
     /\ Len(outer.text) = 1
     /\ outer.text[1] \notin MappedChars
     /\ keyFaults = 0
     /\ keyIdx = 1)
        => /\ Len(wire) >= 1
           /\ Pair(wire[1]) = <<127, 127>>
           /\ outer.state # "abort"

\* "sffd3615 7f 7f 7f \n"
ReleaseThrice ==
    <<115, 102, 102, 100, 51, 54, 49, 53, 32, 55, 102, 32, 55, 102, 32, 55,
      102, 32, 10>>

\* C26: type_text sends one keystroke command per character of the
\* normalized text, in the order of the text (a keystroke whose write failed
\* is missing), then the release with the pair 7f 7f three times; nothing
\* follows the release.
C26_OnePerCharacter ==
    outer.name = "type_text" =>
        /\ \A i \in DOMAIN wire :
              (~Keyish(wire[i]) \/ wire[i] = ReleaseThrice) => i = Len(wire)
        /\ KeyCount(wire) + keyFaults = keyIdx
        /\ keyFaults = 0 =>
              \A i \in 1..keyIdx : wire[i] = KeyCmd(Normalize(outer.text)[i])
        /\ outer.state = "ok" =>
              /\ keyIdx = Len(Normalize(outer.text))
              /\ wire[Len(wire)] = ReleaseThrice
              /\ IsSubseq(SubSeq(wire, 1, Len(wire) - 1), KeyCmds(outer.text))

\* "a", Return and the release
C26_Witness ==
    /\ Typed_Ok
    /\ outer.text = <<97, 92, 110>>
    /\ wire = <<KeyCmd(97), KeyCmd(13), ReleaseThrice>>

RECURSIVE Unescape(_)
\* one pass over the text: backslash-r and backslash-n become Return
Unescape(t) ==
    IF t = <<>> THEN <<>>
    ELSE IF Len(t) >= 2 /\ t[1] = 92 /\ t[2] \in {114, 110}
         THEN <<13>> \o Unescape(SubSeq(t, 3, Len(t)))
         ELSE <<t[1]>> \o Unescape(Tail(t))

\* C27: every backslash-r and backslash-n of the text is typed as one Return
\* keystroke, first code 0x01; the other characters are typed as they are.
C27_Normalized ==
    Typed_Ok =>
        /\ Len(wire) = Len(Unescape(outer.text)) + 1
        /\ \A i \in 1..Len(Unescape(outer.text)) :
              /\ wire[i] = KeyCmd(Unescape(outer.text)[i])
              /\ Unescape(outer.text)[i] = 13 => Pair(wire[i]) = <<1, 127>>

\* backslash-n, backslash-r: two Return keystrokes and the release
C27_Witness ==
    /\ Typed_Ok
    /\ outer.text = <<92, 110, 92, 114>>
    /\ Len(wire) = 3
    /\ Pair(wire[1]) = <<1, 127>>
    /\ Pair(wire[2]) = <<1, 127>>

\* the shifted characters ! " # $ % ( ) ? < > and their keys 1 2 3 4 5 8 9 / , .
ShiftPairs ==
    {<<33, 49>>, <<34, 50>>, <<35, 51>>, <<36, 52>>, <<37, 53>>, <<40, 56>>,
     <<41, 57>>, <<63, 47>>, <<60, 44>>, <<62, 46>>}

\* first codes of the keys 1 2 3 4 5 8 9 / , .
FirstCode(u) ==
    CASE u = 49 -> 56
      [] u = 50 -> 59
      [] u = 51 -> 8
      [] u = 52 -> 11
      [] u = 53 -> 16
      [] u = 56 -> 27
      [] u = 57 -> 32
      [] u = 47 -> 55
      [] u = 44 -> 47
      [] u = 46 -> 44

\* C28: a shifted character s is sent with the first code of its key u and
\* the second code 0x0f; u itself is sent with that first code and 0x7f.
C28_ShiftPairs ==
    (Typed_Ok /\ Len(outer.text) = 1) =>
        \A p \in ShiftPairs :
            /\ outer.text[1] = p[1] => Pair(wire[1]) = <<FirstCode(p[2]), 15>>
            /\ outer.text[1] = p[2] => Pair(wire[1]) = <<FirstCode(p[2]), 127>>

\* "!" is sent as 38 0f
C28_Witness ==
    /\ Typed_Ok
    /\ outer.text = <<33>>
    /\ Pair(wire[1]) = <<56, 15>>

\* C29: when the write of a keystroke fails, type_text returns the error.
C29_FailurePropagates ==
    (outer.name = "type_text" /\ keyFaults > 0 /\ outer.state # "running")
        => outer.state = "err"

----------------------------------------------------------------------------
(* Properties of the loader *)

\* the loader has read a file or an entry and has not aborted
Loaded == loader.pc \in {"purge", "ok"}

\* C21: a file or a disk-image entry of two bytes or more is loaded as the
\* LoadAddress classified from bytes[0] + 256 * bytes[1] and the payload
\* bytes[2..], two bytes shorter and in the same order.
C21_Stripped ==
    /\ Len(loader.content) >= 2 => Loaded
    /\ (loader.pc = "ok" /\ Len(loader.content) >= 2) =>
          LET a == loader.content[1] + 256 * loader.content[2]
          IN  /\ loader.la.tag = TableTag(a)
              /\ loader.la.tag = "Custom" => loader.la.custom = a
              /\ Len(loader.bytes) + 2 = Len(loader.content)
              /\ \A i \in 1..Len(loader.bytes) :
                    loader.bytes[i] = loader.content[i + 2]

\* C21 for the files that load_bytes accepts: what C21 says when the abort
\* on a file of MaxFileBytes bytes or more is left aside
C21_WithinLimit ==
    /\ (Len(loader.content) >= 2 /\ Len(loader.content) < MaxFileBytes)
          => Loaded
    /\ (loader.pc = "ok" /\ Len(loader.content) >= 2) =>
          LET a == loader.content[1] + 256 * loader.content[2]
          IN  /\ loader.la = LoadAddressNew(a)
              /\ loader.bytes = SubSeq(loader.content, 3, Len(loader.content))

\* [0x01, 0x08, 0xAA, 0xBB] has been loaded from a direct file as
\* Commodore64 and [0xAA, 0xBB]
C21_Example ==
    /\ loader.route = "direct"
    /\ loader.pc = "ok"
    /\ loader.content = <<1, 8, 170, 187>>
    /\ loader.la = Canonical("Commodore64")
    /\ loader.bytes = <<170, 187>>

\* the route of each file of Files, written out
ExpectedRoute(file) ==
    CASE file = <<97, 46, 112, 114, 103>> -> "direct"
      [] file = <<65, 46, 80, 114, 71>> -> "direct"
      [] file = <<97>> -> "direct"
      [] file = <<46, 112, 114, 103>> -> "direct"
      [] file = <<100, 46, 120, 47, 97>> -> "direct"
      [] file = <<46, 46>> -> "direct"
      [] file = <<97, 46, 100, 54, 52>> -> "disk"
      [] file = <<97, 46, 68, 56, 49>> -> "disk"
      [] OTHER -> "invalid"

\* nothing has been sent to the device and no call has been made on the port
Untouched ==
    /\ wire = <<>>
    /\ pc = "idle"
    /\ last = NoCall
    /\ mem = <<>>
    /\ ~halted

\* C22: load_prg reads a file whose extension is "prg" in any letter case,
\* or that has no extension, as a program file and one whose extension is
\* "d64" or "d81" as a disk image; every other extension gives the error
\* "invalid file extension", which handle_prg returns before anything is
\* sent to the device.
C22_ExtensionDispatch ==
    /\ loader.route # "" => loader.route = ExpectedRoute(loader.file)
    /\ loader.route = "invalid" =>
          /\ loader.pc = "err"
          /\ loader.error = "invalid file extension"
          /\ Untouched
          /\ outer.state \in {"running", "err"}
          /\ outer.state = "err" => outer.error = "invalid file extension"
    /\ (outer.state = "err" /\ outer.error = "invalid file extension") =>
          /\ loader.route = "invalid"
          /\ Untouched

\* "A.PrG" has been loaded as a program file and transferred
C22_Witness ==
    /\ loader.file = <<65, 46, 80, 114, 71>>
    /\ loader.route = "direct"
    /\ loader.pc = "ok"
    /\ outer.state = "ok"
    /\ wire # <<>>

\* "a.txt" has been refused
C22_Refused ==
    /\ loader.file = <<97, 46, 116, 120, 116>>
    /\ outer.state = "err"
    /\ outer.error = "invalid file extension"

\* an index has been looked up in the directory of a disk image
Selected ==
    /\ loader.via = "tui" \/ loader.route = "disk"
    /\ \/ loader.pc \in {"read", "purge", "ok", "abort"}
       \/ loader.pc = "err" /\ loader.error = "invalid selection"
       \/ loader.pc = "err" /\ loader.entry > 0

\* an index within the list shown gives the entry at that place of the list,
\* one outside gives "invalid selection" and nothing is sent
SameIndexSpace ==
    Selected =>
        IF loader.index >= Len(loader.listed)
        THEN /\ loader.pc = "err"
             /\ loader.error = "invalid selection"
             /\ loader.entry = 0
             /\ Untouched
             /\ outer.state \in {"running", "err"}
             /\ outer.state = "err" => outer.error = "invalid selection"
        ELSE /\ loader.entry = loader.listed[loader.index + 1]
             /\ loader.error # "invalid selection"
             /\ loader.pc \in {"purge", "ok", "abort"} =>
                   loader.content = loader.dir[loader.entry].bytes

\* C23: an index outside the listed candidates gives the error "invalid
\* selection" and nothing is sent to the device; a valid index i gives the
\* i-th entry of the list that was shown to the user.
C23_OneIndexSpace ==
    /\ SameIndexSpace
    /\ (Selected /\ loader.index < Len(loader.listed)) => loader.pc # "abort"

\* the second PRG entry of a directory that starts with a SEQ entry has been
\* chosen as number 1 of the printed list, and is too short
C23_ShortEntry ==
    /\ loader.via = "cli"
    /\ loader.index = 1
    /\ loader.entry = 3
    /\ loader.pc = "abort"

\* the browser's entry 1 has been loaded: the PRG entry after the SEQ entry
C23_Browser ==
    /\ loader.via = "tui"
    /\ loader.index = 1
    /\ loader.entry = 2
    /\ loader.pc = "ok"
    /\ loader.bytes = <<170, 187>>

\* C30: the loader never aborts the process: load_bytes, purge_load_address
\* and load_prg return a result or an error for every file, those of fewer
\* than 2 bytes and those of 0xFFFF bytes or more included.
C30_NoAbort == loader.pc # "abort"

\* a file of 0xFFFF bytes has been read
C30_TooLong ==
    /\ loader.pc = "abort"
    /\ Len(loader.content) = MaxFileBytes

\* a file of fewer than 2 bytes has been read
C30_TooShort ==
    /\ loader.pc = "abort"
    /\ Len(loader.content) < 2
    /\ loader.route = "direct"

\* a file of 0xFFFE bytes is loaded
C30_Longest ==
    /\ loader.pc = "ok"
    /\ Len(loader.content) = MaxFileBytes - 1

----------------------------------------------------------------------------
(* Properties of the key table *)

\* the pair sent for a mapped character typed alone is a key code up to 0x3f
\* with the shift code 0x0f or 0x7f
ValidPair(codes) == codes[1] \in 0..63 /\ codes[2] \in {15, 127}

\* C36: every character with an entry in the key table is sent with a first
\* code in 0x00..0x3f and a second code that is 0x0f or 0x7f.
C36_ValidCodes ==
    (Typed_Ok /\ Len(outer.text) = 1 /\ outer.text[1] \in MappedChars)
        => ValidPair(Pair(wire[1]))

\* C36 for every mapped character but F1 (0xf1)
C36_ExceptF1 ==
    (Typed_Ok /\ Len(outer.text) = 1 /\ outer.text[1] \in MappedChars
        /\ outer.text[1] # 241)
        => ValidPair(Pair(wire[1]))

\* F1 has been typed: the command carries 7f 04
C36_F1 ==
    /\ Typed_Ok
    /\ outer.text = <<241>>
    /\ Pair(wire[1]) = <<127, 4>>

----------------------------------------------------------------------------
(* Properties of peek *)

\* a dump-start command: "m", an address, "\r"
IsDumpStart(cmd) == Len(cmd) > 2 /\ cmd[1] = 109 /\ cmd[Len(cmd)] = 13

\* the command is "m", 7 hexadecimal digits that encode a, "\r"
SevenDigits(cmd, a) ==
    /\ Len(cmd) = 9
    /\ \A i \in 2..8 : HexVal(cmd[i]) >= 0
    /\ ParseHex(SubSeq(cmd, 2, 8)) = a

\* C32: for every 32-bit address given to peek / read_memory, the dump-start
\* command is "m", exactly 7 hexadecimal digits encoding the address, "\r".
C32_SevenDigits ==
    op.name = "read_memory" =>
        \A i \in 1..Len(wire) :
            IsDumpStart(wire[i]) => SevenDigits(wire[i], op.address)

\* C32 for the addresses below 0x10000000
C32_Within28Bits ==
    (op.name = "read_memory" /\ op.address < AddrSpace) =>
        /\ \A i \in 1..Len(wire) :
              IsDumpStart(wire[i]) => SevenDigits(wire[i], op.address)
        /\ pc \in {"rm_header", "rm_chunk"} =>
              \E i \in 1..Len(wire) : IsDumpStart(wire[i])

\* the dump of 0x10000000 has been started with "m10000000\r"
C32_EightDigits ==
    /\ op.address = AddrSpace
    /\ Len(wire) = 3
    /\ wire[3] = <<109, 49, 48, 48, 48, 48, 48, 48, 48, 13>>

\* a call of read_memory is running
Reading == op.name = "read_memory" /\ pc \notin {"idle", "done"}

\* the chunk loop has run at most ceil(length / 16) times, and a frame that
\* did not arrive in full has ended the call with an error
BoundedLoop ==
    op.name = "read_memory" =>
        /\ chunkReads * ChunkBytes < op.length + ChunkBytes
        /\ short => (pc = "done" /\ result.state = "err")

\* flush_monitor stays in its loop while a byte is waiting, and leaves it
\* for stop_cpu on the first read that finds none
FlushUntilTimeout ==
    pc = "rm_drain" =>
        /\ rx # <<>> => pc' = "rm_drain"
        /\ (rx = <<>> /\ pc' # pc) => (pc' = "rm_stop" /\ rx' = <<>>)

\* C40: read_memory terminates: the chunk loop runs at most ceil(L/16) times,
\* the first missing frame ends the call with an error, flush_monitor leaves
\* its loop on the first read that times out and not while bytes keep
\* arriving, and once the device stops sending the call returns.
C40_Terminates ==
    /\ []BoundedLoop
    /\ [][FlushUntilTimeout]_vars
    /\ Reading ~> (pc = "done")

\* 17 bytes have been read in two rounds of the loop after flush_monitor
\* read away every unsolicited byte
C40_Witness ==
    /\ op.name = "read_memory"
    /\ op.length = 17
    /\ pc = "done"
    /\ result.state = "ok"
    /\ chunkReads = 2
    /\ stray = MaxStray

----------------------------------------------------------------------------
(* Properties of the write range *)

\* every write-range command on the wire names the start address of the
\* running write and start + len(payload)
RangeExact ==
    \A i \in DOMAIN wire :
        IsLoadRange(wire[i]) =>
            LoadRange(wire[i]) = <<op.address, op.address + Len(op.payload)>>

\* C33: in every write_memory call made by poke after its validation, or by
\* handle_prg_from_bytes, the end announced in the write-range command is
\* start + len(payload): the sum neither wraps around 16 bits nor aborts.
C33_EndExact ==
    (WriteCalled /\ (Poke \/ HandlePrg)) =>
        /\ pc # "abort"
        /\ RangeExact

\* C33 for the writes that end at 0xFFFF or below
C33_BelowTop ==
    (WriteCalled /\ (Poke \/ HandlePrg)
        /\ op.address + Len(op.payload) < U16) =>
        /\ pc # "abort"
        /\ RangeExact
        /\ pc \in {"wm_payload", "wm_start"} =>
              \E i \in DOMAIN wire : IsLoadRange(wire[i])

\* a poke of 17 bytes at 0xFFEF has passed the validation and announced the
\* range "lffef 0"
C33_Wrapped ==
    /\ Poke
    /\ WriteCalled
    /\ op.address = 65519
    /\ Len(op.payload) = 17
    /\ \E i \in DOMAIN wire : wire[i] = <<108, 102, 102, 101, 102, 32, 48, 13>>

----------------------------------------------------------------------------
(* Properties of the halt bracket *)

\* a command that belongs inside a bracket: dump-start, dump-continue ("m\r")
\* or write-range
Transfer(e) ==
    \/ IsLoadRange(e)
    \/ Len(e) >= 2 /\ e[1] = 109 /\ e[Len(e)] = 13

\* a command that belongs outside a bracket: a keystroke, the release, or
\* the reset "!\n"
Outside(e) == Keyish(e) \/ e = <<33, 10>>

RECURSIVE Bracketed(_, _)
\* the commands of w, read from a state inside (open) or outside a bracket:
\* "t1\r" opens only outside, "t0\r" closes only inside, transfers are
\* inside, keystrokes and resets outside, and w ends outside
Bracketed(w, open) ==
    IF w = <<>> THEN ~open
    ELSE LET e == Head(w)
         IN  CASE e = <<116, 49, 13>> -> ~open /\ Bracketed(Tail(w), TRUE)
               [] e = <<116, 48, 13>> -> open /\ Bracketed(Tail(w), FALSE)
               [] Transfer(e) -> open /\ Bracketed(Tail(w), open)
               [] Outside(e) -> ~open /\ Bracketed(Tail(w), open)
               [] OTHER -> Bracketed(Tail(w), open)

\* C34: on the wire of every operation that has completed successfully, halt
\* and resume alternate starting with halt, every dump-start, dump-continue
\* and write-range lies between a halt and its resume, and keystrokes and
\* resets are sent outside the brackets.
C34_Brackets ==
    (outer.state = "ok" /\ pc \in {"idle", "done"}) => Bracketed(wire, FALSE)

\* a program for the C64 has been transferred with a reset, the probe, the
\* keys of go64, the write and the keys of "run"
C34_Witness ==
    /\ HandlePrg
    /\ outer.state = "ok"
    /\ outer.reset
    /\ outer.run
    /\ outer.go = "go64"
    /\ outer.seen = "native"
    /\ Len(outer.payload) > 0
    /\ keyFaults = 0

----------------------------------------------------------------------------
(* Properties of the shell *)

\* C35: once `stop` has halted the CPU it stays halted until `start`: no
\* command of the shell run in between (dasm, go64) resumes it.
C35_StaysHalted == stopped => halted

\* after `stop`, `dasm` has read a byte and sent the resume
C35_Resumed ==
    /\ stopped
    /\ op.name = "read_memory"
    /\ outer.name = "none"
    /\ pc = "done"
    /\ result.state = "ok"
    /\ wire[Len(wire)] = CmdResume
    /\ ~halted

\* after `stop`, go64 has probed the mode and sent the resume
C35_Go64 ==
    /\ stopped
    /\ outer.name = "go64"
    /\ outer.state = "ok"
    /\ ~halted

----------------------------------------------------------------------------
(* Properties of the TUI *)

\* the last message is the text of an error
ErrorShown ==
    /\ Len(app.messages) > 2
    /\ app.messages[Len(app.messages)] \in {"error", "invalid selection"}

\* C31: after a device operation triggered by a key event fails (run,
\* reset-and-run, reset via 'R', open disk image, run disk entry) the error
\* is appended to the messages, the active widget is the FileSelector and
\* the event loop keeps running.
C31_Recovers ==
    app.fault # "" =>
        /\ app.loop = "running"
        /\ app.widget = "FileSelector"
        /\ ErrorShown

\* the same for the operations started by Enter, which App::keypress makes
C31_KeypressRecovers ==
    app.fault \notin {"", "reset"} =>
        /\ app.loop = "running"
        /\ app.widget = "FileSelector"
        /\ ErrorShown

\* the reset of 'R' has failed and run_app has returned the error
C31_ResetExits ==
    /\ app.fault = "reset"
    /\ app.loop = "exit"
    /\ app.messages = <<"welcome", "help">>
    /\ wire = <<>>

\* a selection is none or an index below n
InRange(sel, n) == sel = -1 \/ (0 <= sel /\ sel < n)

\* C37: for a list or table of any size n >= 0, after any sequence of next,
\* previous and unselect the selection is none or an index below n and no
\* operation aborts; for n >= 1 next wraps from n - 1 to 0 and previous from
\* 0 to n - 1.
C37_InRange ==
    app.loop # "off" =>
        /\ InRange(app.browser, app.entries)
        /\ InRange(app.action, Len(FileActions))
        /\ InRange(app.table, Len(app.items))
        /\ app.panic # "list"

\* a step of next or previous on a list of n >= 1 items whose selection is
\* in range
Wraps(sel, n, to) ==
    (n >= 1 /\ InRange(sel, n)) =>
        /\ InRange(to, n)
        /\ to # -1
        /\ to \in {(IF sel = -1 THEN 0 ELSE (sel + 1) % n),
                   (IF sel = -1 THEN 0 ELSE (sel + n - 1) % n)}

\* the claim for the lists that are not empty
C37_NonEmptyWraps ==
    [][(KeyArrow /\ app'.loop = "running") =>
            /\ app.widget = "CBMBrowser" =>
                    Wraps(app.browser, app.entries, app'.browser)
            /\ app.widget = "FileAction" =>
                    Wraps(app.action, Len(FileActions), app'.action)
            /\ app.widget = "FileSelector" =>
                    Wraps(app.table, Len(app.items), app'.table)]_vars

\* next on the empty list of the browser has selected the entry 0
C37_EmptySelected ==
    /\ app.loop = "running"
    /\ app.widget = "CBMBrowser"
    /\ app.entries = 0
    /\ app.browser = 0

\* previous on the empty list has aborted, or has selected usize::MAX
C37_Underflow ==
    \/ app.panic = "list"
    \/ app.entries = 0 /\ app.browser = UsizeMax

\* C38: a run that loads an entry from a disk image reads the image of the
\* selected filehost item, never one opened for an item selected before and
\* left behind by Esc or by an error.
C38_OwnImage == app.ran.item = app.ran.disk

\* the image and the selection of the browser are left behind and another
\* item is selected
C38_LeftBehind ==
    /\ app.loop = "running"
    /\ app.widget = "FileSelector"
    /\ app.disk # 0
    /\ app.browser # -1
    /\ SelectedItem(app).title # app.disk

\* an entry of the image of the second item has run for the first
C38_OtherImage ==
    /\ app.ran = [item |-> 1, disk |-> 2]
    /\ app.disk = 0
    /\ app.messages = <<"welcome", "help">>

\* FileAction is active only with an action selected
ActionSelected ==
    app.widget = "FileAction" => app.action \in 0..(Len(FileActions) - 1)

\* Enter in the file selector
EnterMoves ==
    (KeyEnter /\ app.widget = "FileSelector") => app'.widget = "FileAction"

\* Esc in any widget
EscMoves == KeyEsc => (app'.widget = "FileSelector" /\ app'.action = -1)

\* C39: whenever the active widget is FileAction the action list has a
\* selected entry; Enter in FileSelector moves to FileAction; Esc from any
\* widget moves to FileSelector with no action selected.
C39_WidgetMachine ==
    /\ []ActionSelected
    /\ [][EnterMoves]_vars
    /\ [][EscMoves]_vars

\* the third action is selected in FileAction, reached again after Esc
C39_Witness ==
    /\ app.loop = "running"
    /\ app.widget = "FileAction"
    /\ app.action = 2
    /\ app.disk # 0

====
